---- MODULE Spec2Model ----
(***************************************************************************)
(* A model of webgraph-rs: the BVGraph sequential decoders                 *)
(* (src/src/webgraph/reader_sequential.rs, reader_degrees.rs), the         *)
(* consistency check of the bench tool (src/src/cli/bench/bvgraph.rs) and  *)
(* the layered label propagation engine (src/src/algo/llp/mod.rs).         *)
(*                                                                         *)
(* A compressed graph is modelled as the sequence of the integers its      *)
(* instantaneous codes stand for: one element per read_* call of the codes *)
(* reader.  Positions in the stream count codes, not bits.                 *)
(*                                                                         *)
(* Unsigned 64-bit values: a value that wrapped below zero is kept as the  *)
(* negative integer x standing for 2^64 + x, so that + and - are the       *)
(* wrapping operations; only comparisons, remainders and the overflow      *)
(* checks of a debug build look at the sign.                               *)
(***************************************************************************)
EXTENDS Integers, Sequences, FiniteSets, TLC

VARIABLES
    \* ---- BVGraph codec ----
    number_of_nodes,     \* the "nodes" property given to the constructors
    compression_window,  \* the "windowsize" property
    build,               \* "debug": overflow checks and debug_assert on; "release": off
    stream,              \* the code values of the .graph file revealed so far
    offsets,             \* offsets[v+1]: position of the record of node v (.offsets)
    wellformed,          \* every revealed record is the encoding of a successor list
    codec_pc,            \* position in the check loop of bench_webgraph
    seq,                 \* WebgraphSequentialIter: [pos, backrefs, end_node_id, status]
    seq_out,             \* the items its next() has returned, in order
    deg,                 \* WebgraphDegreesIter: [pos, backrefs, node_id, status]
    deg_out,             \* the degrees its next_degree() has returned, in order
    rand_out,            \* the lists successors(v) has returned, v = 0, 1, ...
    deg_items,           \* the items WebgraphDegreesIter, as an Iterator, has returned
    \* ---- invert_in_place ----
    inv,                 \* [v, perm, n, i, k, pc]: the call and the array it was given
    \* ---- combine ----
    comb,                \* [result0, labels, result, temp_perm, i, prev_labels,
                         \*  curr_label, pc]: the call and the result it was given
    \* ---- layered_label_propagation ----
    args,                \* [graph, gammas, chunk_size, ranges, predicate]: the arguments
    driver,              \* [pc, gamma_index, update, obj_func, delta_obj_func]
    update_perm,         \* the visit order of the iteration
    label_store,         \* [labels, volumes]: LabelStore
    can_change,          \* the AtomicBool of each node
    modified,            \* the AtomicUsize of the iteration
    worker,              \* the closure of par_apply on each range: its locals
    saved_labels,        \* the label files written so far, one per gamma
    hist,                \* history of the iteration: [changed, stale, changes, evals,
                         \*  pred_args, pred_result]
    \* ---- the parallel shuffle of update_perm, run twice on the same arguments ----
    shuf,                \* [n, chunk_size, num_threads, seed, rng, run]
    \* ---- the word stream and the reference of its fuzz harness ----
    ws,                  \* [init, buffer, idx, buffer2, position, last, pc]
    \* ---- a graph utility: the perm tool, or BfsOrder ----
    util                 \* the arguments and the locals of the utility that runs

codec_vars == <<number_of_nodes, compression_window, build, stream, offsets,
                wellformed, codec_pc, seq, seq_out, deg, deg_out, rand_out, deg_items>>

\* the variables of the other components, which a component leaves alone
llp_vars == <<args, driver, update_perm, label_store, can_change, modified, worker,
              saved_labels, hist>>

not_codec_vars == <<inv, comb, llp_vars, shuf, ws, util>>
not_invert_vars == <<codec_vars, comb, llp_vars, shuf, ws, util>>
not_combine_vars == <<codec_vars, inv, llp_vars, shuf, ws, util>>
not_llp_vars == <<codec_vars, inv, comb, shuf, ws, util>>
not_shuffle_vars == <<codec_vars, inv, comb, llp_vars, ws, util>>
not_word_stream_vars == <<codec_vars, inv, comb, llp_vars, shuf, util>>
not_util_vars == <<codec_vars, inv, comb, llp_vars, shuf, ws>>

vars == <<codec_vars, inv, comb, llp_vars, shuf, ws, util>>

\* a component that is not running
CodecIdle ==
    /\ number_of_nodes = 0 /\ compression_window = 0 /\ build = "release"
    /\ stream = <<>> /\ offsets = <<>> /\ wellformed = TRUE /\ codec_pc = "idle"
    /\ seq = <<>> /\ seq_out = <<>> /\ deg = <<>> /\ deg_out = <<>> /\ rand_out = <<>>
    /\ deg_items = <<>>
InvertIdle == inv = [pc |-> "idle"]
CombineIdle == comb = [pc |-> "idle"]
LLPIdle ==
    /\ args = <<>> /\ driver = [pc |-> "idle"] /\ update_perm = <<>>
    /\ label_store = <<>> /\ can_change = <<>> /\ modified = 0 /\ worker = <<>>
    /\ saved_labels = <<>> /\ hist = <<>>
ShuffleIdle == shuf = [pc |-> "idle"]
WordStreamIdle == ws = [pc |-> "idle"]
UtilIdle == util = [pc |-> "idle"]

(***************************************************************************)
(* Bounds of the model.                                                    *)
(***************************************************************************)
MaxNodes == 2          \* number_of_nodes ranges over 0..MaxNodes
MaxWindow == 1         \* compression_window ranges over 0..MaxWindow
MaxRecLen == 7         \* codes in one record
MinIntervalLength == 1 \* the "minintervallength" property

\* The values a code of each slot of the codes reader may take in a revealed record.
OutdegreeCodes == 0 .. 2
ReferenceCodes == 0 .. (MaxWindow + 1)
BlockCountCodes == 0 .. 2
BlockCodes == 0 .. 1
IntervalCountCodes == 0 .. 2
IntervalLenCodes == 0 .. 1
GapCodes == 0 .. 1

(***************************************************************************)
(* Helpers.                                                                *)
(***************************************************************************)
\* 2^64 mod m by repeated squaring, for remainders of wrapped values
TwoPow64Mod(m) ==
    LET sq(x) == (x * x) % m
    IN  sq(sq(sq(sq(sq(sq(2 % m))))))

\* x % m for an unsigned 64-bit x (m > 0)
URem(x, m) == IF x >= 0 THEN x % m ELSE (TwoPow64Mod(m) + (x % m)) % m

\* a < b as unsigned 64-bit values
ULess(a, b) ==
    IF (a >= 0) = (b >= 0) THEN a < b ELSE a >= 0

\* crate::utils::nat2int
nat2int(x) == IF x % 2 = 0 THEN x \div 2 ELSE -((x + 1) \div 2)

RECURSIVE InsertSorted(_, _)
InsertSorted(s, x) ==
    IF s = <<>> THEN <<x>>
    ELSE IF ULess(x, Head(s)) THEN <<x>> \o s
    ELSE <<Head(s)>> \o InsertSorted(Tail(s), x)

\* Vec<u64>::sort
RECURSIVE Sort(_)
Sort(s) == IF s = <<>> THEN <<>> ELSE InsertSorted(Sort(Tail(s)), Head(s))

\* the half-open slice s[from..to] of Rust, 0-based
Slice(s, from, to) == SubSeq(s, from + 1, to)

\* start..(start + delta) collected into a vector (wrapping u64 arithmetic)
URange(start, delta) ==
    IF start < 0 /\ start + delta >= 0 THEN <<>>
    ELSE [i \in 1 .. delta |-> start + i - 1]

HasCode(s, pos) == pos < Len(s)
Code(s, pos) == s[pos + 1]

(***************************************************************************)
(* CircularBuffer (src/src/webgraph/circular_buffer.rs is not part of the  *)
(* sources at hand): windowsize + 1 vectors indexed by node id modulo the  *)
(* size, as the data model of the specification states.                    *)
(***************************************************************************)
CircularBufferNew(len) ==
    [data |-> [i \in 0 .. (len - 1) |-> <<>>], len |-> len, end_node_id |-> 0]

CircularBufferGet(cb, node_id) == cb.data[URem(node_id, cb.len)]

\* take(): the vector of the slot of the next node, emptied
CircularBufferTake(cb) ==
    [cb EXCEPT !.data[cb.end_node_id % cb.len] = <<>>]

CircularBufferPush(cb, res) ==
    [cb EXCEPT !.data[cb.end_node_id % cb.len] = res,
               !.end_node_id = cb.end_node_id + 1]

(***************************************************************************)
(* WebgraphSequentialIter::get_successors_iter_priv.  A decoder returns    *)
(* [status, pos, results]: status "ok", "short" (a read_* call returned    *)
(* Err: the stream ended) or "panic".                                      *)
(***************************************************************************)
Failed(status, pos) == [status |-> status, pos |-> pos, results |-> <<>>, want |-> ""]
\* a read_* call of the codes reader that found the stream at its end
Short(pos, slot) == [status |-> "short", pos |-> pos, results |-> <<>>, want |-> slot]
Decoded(pos, results) == [status |-> "ok", pos |-> pos, results |-> results, want |-> ""]

\* a block loop that copies the blocks of odd index
RECURSIVE SeqCopyOddBlocks(_, _, _, _, _, _, _)
SeqCopyOddBlocks(s, pos, neighbours, idx, block_id, number_of_blocks, results) ==
    IF block_id >= number_of_blocks
    THEN [status |-> "ok", pos |-> pos, results |-> results, want |-> "", idx |-> idx]
    ELSE IF ~HasCode(s, pos) THEN Short(pos, "blocks")
    ELSE LET block == Code(s, pos)
             end == idx + block + 1
         IN  IF block_id % 2 = 1
             THEN IF end > Len(neighbours) THEN Failed("panic", pos + 1)
                  ELSE SeqCopyOddBlocks(s, pos + 1, neighbours, end, block_id + 1,
                                        number_of_blocks,
                                        results \o Slice(neighbours, idx, end))
             ELSE SeqCopyOddBlocks(s, pos + 1, neighbours, end, block_id + 1,
                                   number_of_blocks, results)

\* reader_sequential.rs:81-88, the blocks after the first
RECURSIVE SeqCopyBlocks(_, _, _, _, _, _, _)
SeqCopyBlocks(s, pos, neighbours, idx, block_id, number_of_blocks, results) ==
    IF block_id >= number_of_blocks
    THEN [status |-> "ok", pos |-> pos, results |-> results, want |-> "", idx |-> idx]
    ELSE IF ~HasCode(s, pos) THEN Short(pos, "blocks")
    ELSE LET block == Code(s, pos)
             end == idx + block + 1
         IN  IF block_id % 2 = 0
             THEN IF end > Len(neighbours) THEN Failed("panic", pos + 1)
                  ELSE SeqCopyBlocks(s, pos + 1, neighbours, end, block_id + 1,
                                     number_of_blocks,
                                     results \o Slice(neighbours, idx, end))
             ELSE SeqCopyBlocks(s, pos + 1, neighbours, end, block_id + 1,
                                number_of_blocks, results)

\* reader_sequential.rs:58-93, from read_reference_offset to the copied part
SeqCopy(s, pos, node_id, cb, bld) ==
    IF ~HasCode(s, pos) THEN Short(pos, "reference_offset")
    ELSE LET ref_delta == Code(s, pos) IN
    IF ref_delta = 0 THEN Decoded(pos + 1, <<>>)
    ELSE IF ref_delta > node_id /\ bld = "debug" THEN Failed("panic", pos + 1)
    ELSE LET reference_node_id == node_id - ref_delta
             neighbours == CircularBufferGet(cb, reference_node_id)
         IN
    IF bld = "debug" /\ neighbours = <<>> THEN Failed("panic", pos + 1)
    ELSE IF ~HasCode(s, pos + 1) THEN Short(pos + 1, "block_count")
    ELSE LET number_of_blocks == Code(s, pos + 1) IN
    IF number_of_blocks = 0 THEN Decoded(pos + 2, neighbours)
    ELSE IF ~HasCode(s, pos + 2) THEN Short(pos + 2, "blocks")
    ELSE LET first == Code(s, pos + 2) IN
    IF first > Len(neighbours) THEN Failed("panic", pos + 3)
    ELSE LET b == SeqCopyBlocks(s, pos + 3, neighbours, first, 1, number_of_blocks,
                                Slice(neighbours, 0, first))
         IN
    IF b.status # "ok" THEN b
    ELSE IF number_of_blocks % 2 = 0
         THEN IF b.idx > Len(neighbours) THEN Failed("panic", b.pos)
              ELSE Decoded(b.pos, b.results \o Slice(neighbours, b.idx, Len(neighbours)))
         ELSE Decoded(b.pos, b.results)

\* an interval loop that starts an interval at the end of the previous one
\* plus the gap, without the 1 between them
RECURSIVE SeqIntervalLoopAdjacent(_, _, _, _, _, _, _)
SeqIntervalLoopAdjacent(s, pos, start, k, number_of_intervals, results, bld) ==
    IF k >= number_of_intervals THEN Decoded(pos, results)
    ELSE IF ~HasCode(s, pos) THEN Short(pos, "interval_start")
    ELSE IF ~HasCode(s, pos + 1) THEN Short(pos + 1, "interval_len")
    ELSE LET start2 == start + Code(s, pos)
             delta == Code(s, pos + 1) + MinIntervalLength
         IN  IF bld = "debug" /\ start < 0 /\ start2 + delta >= 0
             THEN Failed("panic", pos + 2)
             ELSE SeqIntervalLoopAdjacent(s, pos + 2, start2 + delta, k + 1,
                                          number_of_intervals,
                                          results \o URange(start2, delta), bld)

\* reader_sequential.rs:111-119, the intervals after the first
RECURSIVE SeqIntervalLoop(_, _, _, _, _, _, _)
SeqIntervalLoop(s, pos, start, k, number_of_intervals, results, bld) ==
    IF k >= number_of_intervals THEN Decoded(pos, results)
    ELSE IF ~HasCode(s, pos) THEN Short(pos, "interval_start")
    ELSE IF ~HasCode(s, pos + 1) THEN Short(pos + 1, "interval_len")
    ELSE LET start2 == start + 1 + Code(s, pos)
             delta == Code(s, pos + 1) + MinIntervalLength
         IN  IF bld = "debug" /\ start < 0 /\ start2 + delta >= 0
             THEN Failed("panic", pos + 2)
             ELSE SeqIntervalLoop(s, pos + 2, start2 + delta, k + 1, number_of_intervals,
                                  results \o URange(start2, delta), bld)

\* reader_sequential.rs:95-121
SeqIntervals(s, st, node_id, degree, bld) ==
    IF st.status # "ok" THEN st
    ELSE IF bld = "debug" /\ Len(st.results) > degree THEN Failed("panic", st.pos)
    ELSE LET nodes_left_to_decode == degree - Len(st.results) IN
    IF nodes_left_to_decode = 0 THEN st
    ELSE IF ~HasCode(s, st.pos) THEN Short(st.pos, "interval_count")
    ELSE LET number_of_intervals == Code(s, st.pos) IN
    IF number_of_intervals = 0 THEN Decoded(st.pos + 1, st.results)
    ELSE IF ~HasCode(s, st.pos + 1) THEN Short(st.pos + 1, "interval_start")
    ELSE LET node_id_offset == nat2int(Code(s, st.pos + 1))
             start == node_id + node_id_offset
         IN
    IF bld = "debug" /\ start < 0 THEN Failed("panic", st.pos + 2)
    ELSE IF ~HasCode(s, st.pos + 2) THEN Short(st.pos + 2, "interval_len")
    ELSE LET delta == Code(s, st.pos + 2) + MinIntervalLength IN
         SeqIntervalLoop(s, st.pos + 3, start + delta, 1, number_of_intervals,
                         st.results \o URange(start, delta), bld)

\* a residual loop that adds the gap without the 1
RECURSIVE SeqResidualLoopNoStep(_, _, _, _, _, _, _)
SeqResidualLoopNoStep(s, pos, extra, i, nodes_left_to_decode, results, bld) ==
    IF ~ULess(i, nodes_left_to_decode) THEN Decoded(pos, results)
    ELSE IF ~HasCode(s, pos) THEN Short(pos, "residual")
    ELSE LET extra2 == extra + Code(s, pos) IN
         IF bld = "debug" /\ extra < 0 /\ extra2 >= 0 THEN Failed("panic", pos + 1)
         ELSE SeqResidualLoopNoStep(s, pos + 1, extra2, i + 1, nodes_left_to_decode,
                                    Append(results, extra2), bld)

\* reader_sequential.rs:131-134, the residuals after the first
RECURSIVE SeqResidualLoop(_, _, _, _, _, _, _)
SeqResidualLoop(s, pos, extra, i, nodes_left_to_decode, results, bld) ==
    IF ~ULess(i, nodes_left_to_decode) THEN Decoded(pos, results)
    ELSE IF ~HasCode(s, pos) THEN Short(pos, "residual")
    ELSE LET extra2 == extra + 1 + Code(s, pos) IN
         IF bld = "debug" /\ extra < 0 /\ extra2 >= 0 THEN Failed("panic", pos + 1)
         ELSE SeqResidualLoop(s, pos + 1, extra2, i + 1, nodes_left_to_decode,
                              Append(results, extra2), bld)

\* reader_sequential.rs:123-135
SeqResiduals(s, st, node_id, degree, bld) ==
    IF st.status # "ok" THEN st
    ELSE IF bld = "debug" /\ Len(st.results) > degree THEN Failed("panic", st.pos)
    ELSE LET nodes_left_to_decode == degree - Len(st.results) IN
    IF nodes_left_to_decode = 0 THEN st
    ELSE IF ~HasCode(s, st.pos) THEN Short(st.pos, "first_residual")
    ELSE LET extra == node_id + nat2int(Code(s, st.pos)) IN
         SeqResidualLoop(s, st.pos + 1, extra, 1, nodes_left_to_decode,
                         Append(st.results, extra), bld)

\* mutant of get_successors_iter_priv: the merged list is not sorted
get_successors_unsorted(s, pos, node_id, cb, bld) ==
    IF ~HasCode(s, pos) THEN Short(pos, "outdegree")
    ELSE LET degree == Code(s, pos) IN
    IF degree = 0 THEN Decoded(pos + 1, <<>>)
    ELSE LET copied == SeqCopy(s, pos + 1, node_id, cb, bld)
             withIntervals == SeqIntervals(s, copied, node_id, degree, bld)
         IN  SeqResiduals(s, withIntervals, node_id, degree, bld)

\* reader_sequential.rs:48-139
get_successors_iter_priv(s, pos, node_id, cb, bld) ==
    IF ~HasCode(s, pos) THEN Short(pos, "outdegree")
    ELSE LET degree == Code(s, pos) IN
    IF degree = 0 THEN Decoded(pos + 1, <<>>)
    ELSE LET copied == SeqCopy(s, pos + 1, node_id, cb, bld)
             withIntervals == SeqIntervals(s, copied, node_id, degree, bld)
             all == SeqResiduals(s, withIntervals, node_id, degree, bld)
         IN  IF all.status # "ok" THEN all
             ELSE Decoded(all.pos, Sort(all.results))

(***************************************************************************)
(* WebgraphDegreesIter::next_degree.  The intermediate results are         *)
(* [status, pos, left]: left is nodes_left_to_decode.                      *)
(***************************************************************************)
DegFailed(status, pos) == [status |-> status, pos |-> pos, left |-> 0]
DegState(pos, left) == [status |-> "ok", pos |-> pos, left |-> left]

\* a -= b on u64: a debug build panics when b > a, a release build wraps
USubPanics(a, b, bld) == bld = "debug" /\ ULess(a, b)

\* reader_degrees.rs:90-97, the blocks after the first
RECURSIVE DegCopyBlocks(_, _, _, _, _, _, _)
DegCopyBlocks(s, pos, idx, block_id, number_of_blocks, left, bld) ==
    IF block_id >= number_of_blocks
    THEN [status |-> "ok", pos |-> pos, left |-> left, idx |-> idx]
    ELSE IF ~HasCode(s, pos) THEN DegFailed("short", pos)
    ELSE LET block == Code(s, pos)
             end == idx + block + 1
         IN  IF block_id % 2 = 0
             THEN IF USubPanics(left, block + 1, bld) THEN DegFailed("panic", pos + 1)
                  ELSE DegCopyBlocks(s, pos + 1, end, block_id + 1, number_of_blocks,
                                     left - (block + 1), bld)
             ELSE DegCopyBlocks(s, pos + 1, end, block_id + 1, number_of_blocks,
                                left, bld)

\* reader_degrees.rs:68-102, from read_reference_offset to the copied part
DegCopy(s, pos, node_id, backrefs, window, degree, bld) ==
    IF ~HasCode(s, pos) THEN DegFailed("short", pos)
    ELSE LET ref_delta == Code(s, pos) IN
    IF ref_delta = 0 THEN DegState(pos + 1, degree)
    ELSE IF USubPanics(node_id, ref_delta, bld) THEN DegFailed("panic", pos + 1)
    ELSE IF window = 0 THEN DegFailed("panic", pos + 1)
    ELSE LET reference_node_id == node_id - ref_delta
             ref_degree == backrefs[URem(reference_node_id, window)]
         IN
    IF ~HasCode(s, pos + 1) THEN DegFailed("short", pos + 1)
    ELSE LET number_of_blocks == Code(s, pos + 1) IN
    IF number_of_blocks = 0
    THEN IF USubPanics(degree, ref_degree, bld) THEN DegFailed("panic", pos + 2)
         ELSE DegState(pos + 2, degree - ref_degree)
    ELSE IF ~HasCode(s, pos + 2) THEN DegFailed("short", pos + 2)
    ELSE LET first == Code(s, pos + 2) IN
    IF USubPanics(degree, first, bld) THEN DegFailed("panic", pos + 3)
    ELSE LET b == DegCopyBlocks(s, pos + 3, first, 1, number_of_blocks,
                                degree - first, bld)
         IN
    IF b.status # "ok" THEN DegFailed(b.status, b.pos)
    ELSE IF number_of_blocks % 2 = 0
         THEN IF USubPanics(ref_degree, b.idx, bld)
                 \/ USubPanics(b.left, ref_degree - b.idx, bld)
              THEN DegFailed("panic", b.pos)
              ELSE DegState(b.pos, b.left - (ref_degree - b.idx))
         ELSE DegState(b.pos, b.left)

\* reader_degrees.rs:116-122, the intervals after the first
RECURSIVE DegIntervalLoop(_, _, _, _, _, _)
DegIntervalLoop(s, pos, k, number_of_intervals, left, bld) ==
    IF k >= number_of_intervals THEN DegState(pos, left)
    ELSE IF ~HasCode(s, pos) THEN DegFailed("short", pos)
    ELSE IF ~HasCode(s, pos + 1) THEN DegFailed("short", pos + 1)
    ELSE LET delta == Code(s, pos + 1) + MinIntervalLength IN
         IF USubPanics(left, delta, bld) THEN DegFailed("panic", pos + 2)
         ELSE DegIntervalLoop(s, pos + 2, k + 1, number_of_intervals, left - delta, bld)

\* reader_degrees.rs:104-124
DegIntervals(s, st, bld) ==
    IF st.status # "ok" \/ st.left = 0 THEN st
    ELSE IF ~HasCode(s, st.pos) THEN DegFailed("short", st.pos)
    ELSE LET number_of_intervals == Code(s, st.pos) IN
    IF number_of_intervals = 0 THEN DegState(st.pos + 1, st.left)
    ELSE IF ~HasCode(s, st.pos + 1) THEN DegFailed("short", st.pos + 1)
    ELSE IF ~HasCode(s, st.pos + 2) THEN DegFailed("short", st.pos + 2)
    ELSE LET delta == Code(s, st.pos + 2) + MinIntervalLength IN
         IF USubPanics(st.left, delta, bld) THEN DegFailed("panic", st.pos + 3)
         ELSE DegIntervalLoop(s, st.pos + 3, 1, number_of_intervals,
                              st.left - delta, bld)

\* reader_degrees.rs:131-133, the residuals after the first
RECURSIVE DegResidualLoop(_, _, _, _)
DegResidualLoop(s, pos, i, left) ==
    IF ~ULess(i, left) THEN DegState(pos, left)
    ELSE IF ~HasCode(s, pos) THEN DegFailed("short", pos)
    ELSE DegResidualLoop(s, pos + 1, i + 1, left)

\* reader_degrees.rs:126-134
DegResiduals(s, st) ==
    IF st.status # "ok" \/ st.left = 0 THEN st
    ELSE IF ~HasCode(s, st.pos) THEN DegFailed("short", st.pos)
    ELSE DegResidualLoop(s, st.pos + 1, 1, st.left)

\* reader_degrees.rs:57-139: [status, pos, degree, backrefs, node_id]
next_degree(s, d, window, bld) ==
    LET fail(status, pos) ==
            [status |-> status, pos |-> pos, degree |-> 0,
             backrefs |-> d.backrefs, node_id |-> d.node_id]
        done(pos, degree) ==
            IF window = 0 THEN fail("panic", pos)
            ELSE [status |-> "ok", pos |-> pos, degree |-> degree,
                  backrefs |-> [d.backrefs EXCEPT ![d.node_id % window] = degree],
                  node_id |-> d.node_id + 1]
    IN
    IF ~HasCode(s, d.pos) THEN fail("short", d.pos)
    ELSE LET degree == Code(s, d.pos) IN
    IF degree = 0 THEN done(d.pos + 1, degree)
    ELSE LET copied == DegCopy(s, d.pos + 1, d.node_id, d.backrefs, window, degree, bld)
             withIntervals == DegIntervals(s, copied, bld)
             all == DegResiduals(s, withIntervals)
         IN  IF all.status # "ok" THEN fail(all.status, all.pos)
             ELSE done(all.pos, degree)

(***************************************************************************)
(* The iterators.                                                          *)
(***************************************************************************)
\* mutant of SeqIterNext: the record is decoded for the node after the one the
\* circular buffer is about to receive
SeqIterNextWrongNode(sq, s, nodes, bld) ==
    LET node_id == sq.backrefs.end_node_id IN
    IF node_id > nodes THEN [sq EXCEPT !.status = "none", !.item = <<>>]
    ELSE LET r == get_successors_iter_priv(s, sq.pos, node_id + 1,
                                           CircularBufferTake(sq.backrefs), bld)
         IN  IF r.status # "ok"
             THEN [sq EXCEPT !.status = "panic", !.item = <<>>, !.pos = r.pos]
             ELSE [pos |-> r.pos,
                   backrefs |-> CircularBufferPush(sq.backrefs, r.results),
                   status |-> "some",
                   item |-> r.results]

\* Iterator for WebgraphSequentialIter::next, reader_sequential.rs:145-153:
\* the iterator after the call, with the item returned in .item
SeqIterNext(sq, s, nodes, bld) ==
    LET node_id == sq.backrefs.end_node_id IN
    IF node_id > nodes THEN [sq EXCEPT !.status = "none", !.item = <<>>]
    ELSE LET r == get_successors_iter_priv(s, sq.pos, node_id,
                                           CircularBufferTake(sq.backrefs), bld)
         IN  IF r.status # "ok"
             THEN [sq EXCEPT !.status = "panic", !.item = <<>>, !.pos = r.pos]
             ELSE [pos |-> r.pos,
                   backrefs |-> CircularBufferPush(sq.backrefs, r.results),
                   status |-> "some",
                   item |-> r.results]

\* WebgraphSequentialIter::new, reader_sequential.rs:21-33
SeqIterNew(window) ==
    [pos |-> 0, backrefs |-> CircularBufferNew(window + 1), status |-> "new",
     item |-> <<>>]

\* WebgraphDegreesIter::new, reader_degrees.rs:36-50
DegIterNew(window) ==
    [pos |-> 0, backrefs |-> [i \in 0 .. window |-> 0], node_id |-> 0,
     status |-> "new", degree |-> 0]

(***************************************************************************)
(* Random access (src/src/webgraph/bvgraph.rs is not part of the sources   *)
(* at hand).  As the specification describes it: seek to offsets[v], then  *)
(* one successor decode with a fresh circular buffer whose slots for       *)
(* v - windowsize .. v - 1 are decoded on demand.                          *)
(***************************************************************************)
RECURSIVE RandomAccessDecode(_, _, _, _, _)
RandomAccessDecode(s, offs, v, window, bld) ==
    LET slotNode(i) == {u \in 0 .. (v - 1) : u >= v - window /\ u % (window + 1) = i}
        cb == [data |-> [i \in 0 .. window |->
                            IF slotNode(i) = {} THEN <<>>
                            ELSE RandomAccessDecode(s, offs, CHOOSE u \in slotNode(i) : TRUE,
                                                    window, bld).results],
               len |-> window + 1,
               end_node_id |-> v]
    IN  get_successors_iter_priv(s, offs[v + 1], v, cb, bld)

(***************************************************************************)
(* The records of the stream.  The file is complete before any reader is   *)
(* built; the model reveals it one record at a time, just before the first *)
(* reader gets to it, which gives the readers the same streams to read.    *)
(* A record is any sequence of code values that the decode at its offset   *)
(* reads to its end.  The streams of the model are the well-formed ones    *)
(* and those whose last record is the only one that is not well-formed.    *)
(***************************************************************************)
SlotCodes(slot) ==
    CASE slot = "outdegree" -> OutdegreeCodes
      [] slot = "reference_offset" -> ReferenceCodes
      [] slot = "block_count" -> BlockCountCodes
      [] slot = "blocks" -> BlockCodes
      [] slot = "interval_count" -> IntervalCountCodes
      [] slot = "interval_len" -> IntervalLenCodes
      [] OTHER -> GapCodes

\* the decode of node v when rec follows the stream s
DecodeAppended(s, offs, rec, window, bld) ==
    RandomAccessDecode(s \o rec, Append(offs, Len(s)), Len(offs), window, bld)

RECURSIVE RecordsFrom(_, _, _, _, _, _)
RecordsFrom(prefixes, n, s, offs, window, bld) ==
    LET more == {p \in prefixes : DecodeAppended(s, offs, p, window, bld).status = "short"}
        next == UNION {{Append(p, c) :
                          c \in SlotCodes(DecodeAppended(s, offs, p, window, bld).want)} :
                       p \in more}
    IN  (prefixes \ more) \cup
        (IF n = 0 \/ next = {} THEN {} ELSE RecordsFrom(next, n - 1, s, offs, window, bld))

Records(s, offs, window, bld) == RecordsFrom({<<>>}, MaxRecLen, s, offs, window, bld)

StrictlyIncreasing(l) == \A i \in 1 .. (Len(l) - 1) : l[i] < l[i + 1]

\* rec encodes a successor list of node v: the reference is inside the window and
\* to a node with successors, no count or id leaves its range, the ids are distinct
WellFormedRecord(s, offs, rec, window) ==
    LET r == DecodeAppended(s, offs, rec, window, "debug")
        ref_delta == IF Len(rec) >= 2 /\ rec[1] # 0 THEN rec[2] ELSE 0
    IN  /\ r.status = "ok"
        /\ ref_delta <= window
        /\ \A i \in 1 .. Len(r.results) : r.results[i] >= 0
        /\ StrictlyIncreasing(r.results)

(***************************************************************************)
(* The check of bench_webgraph (bvgraph.rs:138-155): for every item of the *)
(* sequential iterator, the random-access list and the next degree are     *)
(* compared with it.                                                       *)
(***************************************************************************)
InitCodec ==
    /\ number_of_nodes \in 0 .. MaxNodes
    /\ compression_window \in 0 .. MaxWindow
    /\ build \in {"debug", "release"}
    /\ stream = <<>>
    /\ offsets = <<>>
    /\ wellformed = TRUE
    /\ codec_pc = IF number_of_nodes = 0 THEN "next" ELSE "reveal"
    /\ seq = SeqIterNew(compression_window)
    /\ seq_out = <<>>
    /\ deg = DegIterNew(compression_window)
    /\ deg_out = <<>>
    /\ rand_out = <<>>
    /\ deg_items = <<>>
    /\ InvertIdle /\ CombineIdle /\ LLPIdle /\ ShuffleIdle /\ WordStreamIdle
    /\ UtilIdle

\* the record of the next node comes into view
RevealRecord ==
    /\ codec_pc = "reveal"
    /\ wellformed
    /\ \E rec \in Records(stream, offsets, compression_window, build) :
          /\ stream' = stream \o rec
          /\ offsets' = Append(offsets, Len(stream))
          /\ wellformed' = (wellformed /\
                            WellFormedRecord(stream, offsets, rec, compression_window))
    /\ codec_pc' = "next"
    /\ UNCHANGED <<number_of_nodes, compression_window, build, seq, seq_out, deg,
                   deg_out, rand_out, deg_items, not_codec_vars>>

\* the head of the loop: seq_graph's iterator is asked for its next item
SeqNext ==
    /\ codec_pc = "next"
    /\ seq' = SeqIterNext(seq, stream, number_of_nodes, build)
    /\ seq_out' = IF seq'.status = "some" THEN Append(seq_out, seq'.item) ELSE seq_out
    /\ codec_pc' = CASE seq'.status = "some" -> "check"
                     [] seq'.status = "none" -> "done"
                     [] OTHER -> "crashed"
    /\ UNCHANGED <<number_of_nodes, compression_window, build, stream, offsets,
                   wellformed, deg, deg_out, rand_out, deg_items, not_codec_vars>>

\* the body of the loop, bvgraph.rs:151-154
CheckNode ==
    /\ codec_pc = "check"
    /\ LET node == Len(seq_out) - 1
           succ == IF node < Len(offsets)
                   THEN RandomAccessDecode(stream, offsets, node, compression_window, build)
                   ELSE Failed("panic", 0)
           d == next_degree(stream, deg, compression_window, build)
       IN  /\ rand_out' = IF succ.status = "ok" THEN Append(rand_out, succ.results)
                          ELSE rand_out
           /\ deg' = [pos |-> d.pos, backrefs |-> d.backrefs, node_id |-> d.node_id,
                      status |-> d.status, degree |-> d.degree]
           /\ deg_out' = IF d.status = "ok" THEN Append(deg_out, d.degree) ELSE deg_out
           /\ codec_pc' =
                 IF succ.status # "ok" \/ d.status # "ok" THEN "crashed"
                 ELSE IF d.degree # Len(seq.item) \/ succ.results # seq.item
                      THEN "mismatch"
                 ELSE IF Len(offsets) < number_of_nodes THEN "reveal"
                 ELSE "next"
    /\ UNCHANGED <<number_of_nodes, compression_window, build, stream, offsets,
                   wellformed, seq, seq_out, deg_items, not_codec_vars>>

NextCodec == RevealRecord \/ SeqNext \/ CheckNode

Spec == InitCodec /\ [][NextCodec]_vars

(***************************************************************************)
(* WebgraphDegreesIter used as an Iterator (reader_degrees.rs:21-34), on   *)
(* the same streams.  A position is a number of codes read, which grows    *)
(* with the number of bits read.                                           *)
(***************************************************************************)
\* reader_degrees.rs:24-33: the iterator after the call; unwrap() panics on an
\* error of next_degree
DegIterNext(d, s, nodes, window, bld) ==
    IF d.node_id >= nodes THEN [d EXCEPT !.status = "none"]
    ELSE LET r == next_degree(s, d, window, bld)
         IN  IF r.status # "ok" THEN [d EXCEPT !.status = "panic", !.pos = r.pos]
             ELSE [pos |-> r.pos, backrefs |-> r.backrefs, node_id |-> r.node_id,
                   status |-> "some", degree |-> r.degree]

\* one call of next(): the item is (offset, node_id, degree), with the offset
\* and the node id taken before next_degree runs
DegIterStep ==
    /\ codec_pc = "next"
    /\ deg' = DegIterNext(deg, stream, number_of_nodes, compression_window, build)
    /\ deg_items' = IF deg'.status = "some"
                    THEN Append(deg_items, <<deg.pos, deg.node_id, deg'.degree>>)
                    ELSE deg_items
    /\ codec_pc' = CASE deg'.status = "some" ->
                          IF Len(offsets) < number_of_nodes THEN "reveal" ELSE "next"
                     [] deg'.status = "none" -> "done"
                     [] OTHER -> "crashed"
    /\ UNCHANGED <<number_of_nodes, compression_window, build, stream, offsets,
                   wellformed, seq, seq_out, deg_out, rand_out, not_codec_vars>>

SpecDegrees == InitCodec /\ [][RevealRecord \/ DegIterStep]_vars

(***************************************************************************)
(* Properties of the codec.                                                *)
(***************************************************************************)
\* the reference offset written in the record of node v (0: no reference)
RecordRef(v) ==
    IF stream[offsets[v + 1] + 1] = 0 THEN 0 ELSE stream[offsets[v + 1] + 2]

\* the block count written in the record of node v (0: none, or no reference)
RecordBlocks(v) ==
    IF RecordRef(v) = 0 THEN 0 ELSE stream[offsets[v + 1] + 3]

\* every revealed record has been handed out by the sequential iterator
AllDecoded == Len(seq_out) = Len(offsets)

NonDecreasing(l) == \A i \in 1 .. (Len(l) - 1) : ~ULess(l[i + 1], l[i])

RECURSIVE SumLen(_)
SumLen(ls) == IF ls = <<>> THEN 0 ELSE Len(Head(ls)) + SumLen(Tail(ls))

RECURSIVE SumSeq(_)
SumSeq(ds) == IF ds = <<>> THEN 0 ELSE Head(ds) + SumSeq(Tail(ds))

C2_DegreesAgree ==
    wellformed =>
        /\ deg.status \in {"new", "ok"}
        /\ \A v \in 1 .. Len(deg_out) : deg_out[v] = Len(seq_out[v])
        /\ (codec_pc \in {"reveal", "next", "done"} => Len(deg_out) = Len(seq_out))
        /\ (Len(deg_out) = number_of_nodes => SumSeq(deg_out) = SumLen(seq_out))

\* C3: an iterator built for N nodes returns Some N times, for nodes 0..N-1, then
\* None, and decodes no record past the last node.
C3_ExactlyNItems ==
    wellformed =>
        /\ Len(seq_out) <= number_of_nodes
        /\ seq.status # "panic"
        /\ (seq.status = "none" => Len(seq_out) = number_of_nodes)

\* C4 as stated: every list handed out is strictly increasing.
C4_StrictlyIncreasing ==
    \A v \in 1 .. Len(seq_out) : StrictlyIncreasing(seq_out[v])

\* C4 amended: every list handed out is sorted in ascending order of its ids
\* taken as unsigned 64-bit values, possibly with repeated ids; it is strictly
\* increasing whenever no id occurs twice in the record.
C4_Sorted ==
    \A v \in 1 .. Len(seq_out) :
        /\ NonDecreasing(seq_out[v])
        /\ (Cardinality({seq_out[v][i] : i \in 1 .. Len(seq_out[v])}) = Len(seq_out[v])
              => \A i \in 1 .. (Len(seq_out[v]) - 1) : ULess(seq_out[v][i], seq_out[v][i + 1]))

\* C4 witness: node 1 takes id 1 from an interval and then id 0 from a residual,
\* and the list handed out is <<0, 1>>.
C4_Witness ==
    /\ Len(seq_out) = 2
    /\ SubSeq(stream, offsets[2] + 1, Len(stream)) = <<2, 0, 1, 0, 0, 1>>
    /\ seq_out[2] = <<0, 1>>

\* C16: a record whose reference offset is greater than windowsize, or greater
\* than the id of its node, gives no item: neither the successor iterator nor
\* the degree iterator hands out a list or a degree for it.
C16_OutOfWindowRejected ==
    \A v \in 0 .. (Len(offsets) - 1) :
        RecordRef(v) > compression_window \/ RecordRef(v) > v =>
            Len(seq_out) <= v /\ Len(deg_out) <= v

\* C17: when next_degree is called on a record whose copied blocks and
\* intervals account for more successors than its outdegree, it returns a decode
\* error, leaves node_id alone and reads no residual: nodes_left_to_decode never
\* goes below zero (a negative number here is the wrapped u64).
C17_NoUnderflow ==
    codec_pc = "check" /\ HasCode(stream, deg.pos) /\ Code(stream, deg.pos) # 0 =>
        LET degree == Code(stream, deg.pos)
            copied == DegCopy(stream, deg.pos + 1, deg.node_id, deg.backrefs,
                              compression_window, degree, "release")
            withIntervals == DegIntervals(stream, copied, "release")
            exceeds == \/ copied.status = "ok" /\ copied.left < 0
                       \/ withIntervals.status = "ok" /\ withIntervals.left < 0
            d == next_degree(stream, deg, compression_window, build)
        IN  exceeds =>
               /\ d.status = "short"
               /\ d.node_id = deg.node_id
               /\ d.pos <= withIntervals.pos

\* C18: on a well-formed stream the k-th item of the degree iterator is
\* (p_k, k, d_k), with p_k the position of the record of node k and d_k its
\* outdegree; the offsets grow strictly from the initial position 0; and after
\* N items the iterator returns None and has read nothing past the last record.
C18_DegreeTriples ==
    wellformed =>
        /\ deg.status # "panic"
        /\ Len(deg_items) <= number_of_nodes
        /\ (codec_pc \in {"reveal", "done"} => Len(deg_items) = Len(offsets))
        /\ \A k \in 1 .. Len(deg_items) :
              /\ deg_items[k] = <<offsets[k], k - 1, stream[offsets[k] + 1]>>
              /\ (k = 1 => deg_items[k][1] = 0)
              /\ (k > 1 => deg_items[k - 1][1] < deg_items[k][1])
        /\ (deg.status = "none" =>
              Len(deg_items) = number_of_nodes /\ deg.pos = Len(stream))

(***************************************************************************)
(* invert_in_place, src/src/algo/llp/mod.rs:340-359.  Arrays are functions *)
(* over 0 .. len-1.  The complement !k of a usize is kept as -(k + 1):     *)
(* (x as isize) < 0 is x < 0 here.                                         *)
(***************************************************************************)
MaxPermLen == 4        \* perm.len() ranges over 0..MaxPermLen

\* mutant of BitNot: arithmetic negation in place of the complement
BitNotAsNeg(x) == 0 - x

\* !x
BitNot(x) == 0 - (x + 1)

ArrayLen(a) == Cardinality(DOMAIN a)

\* the arrays of length n with values in 0 .. n-1
Arrays(n) == [0 .. (n - 1) -> 0 .. (n - 1)]

IsPermutation(a) ==
    /\ \A x \in DOMAIN a : a[x] \in DOMAIN a
    /\ \A x, y \in DOMAIN a : a[x] = a[y] => x = y

\* one step of the call: the head of the for loop (lines 341-346 and 357) or
\* one turn of the inner loop (lines 348-355)
InvertStep(st) ==
    IF st.pc = "outer" THEN
        IF st.n >= ArrayLen(st.perm) THEN [st EXCEPT !.pc = "done"]
        ELSE LET i == st.perm[st.n] IN
             IF i < 0 THEN [st EXCEPT !.perm[st.n] = BitNot(i), !.n = st.n + 1, !.i = i]
             ELSE IF i # st.n THEN [st EXCEPT !.i = i, !.k = st.n, !.pc = "inner"]
             ELSE [st EXCEPT !.n = st.n + 1, !.i = i]
    ELSE \* "inner"
        IF st.i \notin DOMAIN st.perm THEN [st EXCEPT !.pc = "panic"]
        ELSE LET j == st.perm[st.i]
                 marked == [st.perm EXCEPT ![st.i] = BitNot(st.k)]
             IN  IF j = st.n
                 THEN [st EXCEPT !.perm = [marked EXCEPT ![st.n] = st.i],
                                 !.n = st.n + 1, !.pc = "outer"]
                 ELSE [st EXCEPT !.perm = marked, !.k = st.i, !.i = j]

\* test_invert_in_place, lines 365-368: w := v.clone(); invert_in_place(&mut w)
InitInvert ==
    /\ \E n \in 0 .. MaxPermLen : \E v \in Arrays(n) :
          inv = [v |-> v, perm |-> v, n |-> 0, i |-> 0, k |-> 0, pc |-> "outer"]
    /\ CodecIdle /\ CombineIdle /\ LLPIdle /\ ShuffleIdle /\ WordStreamIdle
    /\ UtilIdle

InvertRun ==
    /\ inv.pc \in {"outer", "inner"}
    /\ inv' = InvertStep(inv)
    /\ UNCHANGED not_invert_vars

SpecInvert == InitInvert /\ [][InvertRun]_vars /\ WF_vars(InvertRun)

\* the assertion of test_invert_in_place, lines 369-371, and no marker left
Inverted ==
    /\ inv.pc = "done"
    /\ \A x \in DOMAIN inv.v : inv.perm[inv.v[x]] = x
    /\ \A x \in DOMAIN inv.perm : inv.perm[x] >= 0

\* C5: for every permutation v, the call on a copy w of v terminates, and then
\* w[v[i]] = i for every i and no slot holds a complemented value.
C5_InvertCorrect == IsPermutation(inv.v) => <>[]Inverted

\* C5 witness: the call has finished on a permutation of four elements with a
\* cycle of length three and a fixed point.
C5_Witness ==
    /\ inv.pc = "done"
    /\ inv.v = (0 :> 1 @@ 1 :> 2 @@ 2 :> 0 @@ 3 :> 3)
    /\ inv.perm = (0 :> 2 @@ 1 :> 0 @@ 2 :> 1 @@ 3 :> 3)

\* C22: on an array that is not a permutation of 0..N-1 the call does not
\* return an array and does not index outside the array.
C22_NonBijectionRejected ==
    ~IsPermutation(inv.v) =>
        /\ inv.pc # "done"
        /\ inv.pc = "inner" => inv.i \in DOMAIN inv.perm

\* invert_in_place called on a copy of v and then once more on the result
InitInvertTwice ==
    /\ \E n \in 0 .. MaxPermLen : \E v \in Arrays(n) :
          inv = [v |-> v, perm |-> v, n |-> 0, i |-> 0, k |-> 0, pc |-> "outer",
                 calls |-> 1]
    /\ CodecIdle /\ CombineIdle /\ LLPIdle /\ ShuffleIdle /\ WordStreamIdle
    /\ UtilIdle

\* the first call has returned: the second call, on the array it left
InvertAgain ==
    /\ inv.pc = "done" /\ inv.calls = 1
    /\ inv' = [inv EXCEPT !.calls = 2, !.n = 0, !.i = 0, !.k = 0, !.pc = "outer"]
    /\ UNCHANGED not_invert_vars

SpecInvertTwice ==
    InitInvertTwice /\ [][InvertRun \/ InvertAgain]_vars
                    /\ WF_vars(InvertRun \/ InvertAgain)

\* C19: for every permutation v, invert_in_place applied to v and then to its
\* result terminates both times and leaves exactly v.
C19_Involution ==
    IsPermutation(inv.v) =>
        <>[](inv.calls = 2 /\ inv.pc = "done" /\ inv.perm = inv.v)

\* C19 witness: the second call has finished on the inverse of a permutation
\* of four elements that is not its own inverse, and the array is v again
C19_Witness ==
    /\ inv.pc = "done" /\ inv.calls = 2
    /\ inv.v = (0 :> 2 @@ 1 :> 1 @@ 2 :> 3 @@ 3 :> 0)
    /\ inv.perm = inv.v

(***************************************************************************)
(* combine, src/src/algo/llp/mod.rs:314-337.                               *)
(***************************************************************************)
MaxCombineLen == 3     \* result.len() ranges over 0..MaxCombineLen

\* the comparator of par_sort_by, lines 318-322: a goes before b
CombineLess(result, labels, a, b) ==
    LET ka == <<result[labels[a]], labels[a], result[a]>>
        kb == <<result[labels[b]], labels[b], result[b]>>
    IN  \/ ka[1] < kb[1]
        \/ ka[1] = kb[1] /\ ka[2] < kb[2]
        \/ ka[1] = kb[1] /\ ka[2] = kb[2] /\ ka[3] < kb[3]

\* x put into the sorted sequence s after every element that does not go after
\* it (par_sort_by is stable)
RECURSIVE CombineInsert(_, _, _, _)
CombineInsert(result, labels, s, x) ==
    IF s = <<>> THEN <<x>>
    ELSE IF CombineLess(result, labels, x, Head(s)) THEN <<x>> \o s
    ELSE <<Head(s)>> \o CombineInsert(result, labels, Tail(s), x)

\* temp_perm after lines 316-322: 0 .. n-1 sorted by the comparator
RECURSIVE CombineSorted(_, _, _)
CombineSorted(result, labels, n) ==
    IF n = 0 THEN <<>>
    ELSE CombineInsert(result, labels, CombineSorted(result, labels, n - 1), n - 1)

\* a sequence as an array over 0 .. len-1
AsArray(s) == [x \in 0 .. (Len(s) - 1) |-> s[x + 1]]

\* the count is the last label, one too few
ReturnedLastLabel(curr_label) == curr_label

\* line 336: the value returned
ReturnedCount(curr_label) == curr_label + 1

\* one step of the call
CombineStep(st) ==
    CASE st.pc = "sort" ->      \* lines 316-322
            [st EXCEPT !.temp_perm =
                           AsArray(CombineSorted(st.result, st.labels, ArrayLen(st.result))),
                       !.pc = "first"]
      [] st.pc = "first" ->     \* lines 323-325
            IF ArrayLen(st.temp_perm) = 0 THEN [st EXCEPT !.pc = "panic"]
            ELSE [st EXCEPT !.prev_labels = <<st.result[st.temp_perm[0]],
                                              st.labels[st.temp_perm[0]]>>,
                            !.curr_label = 0,
                            !.temp_perm[0] = 0,
                            !.i = 1,
                            !.pc = "loop"]
      [] st.pc = "loop" ->      \* lines 327-336
            IF st.i >= ArrayLen(st.temp_perm)
            THEN [st EXCEPT !.pc = "done", !.count = ReturnedCount(st.curr_label)]
            ELSE LET x == st.temp_perm[st.i]
                     curr_labels == <<st.result[x], st.labels[x]>>
                     differs == st.prev_labels # curr_labels
                     label == IF differs THEN st.curr_label + 1 ELSE st.curr_label
                 IN  [st EXCEPT !.curr_label = label,
                                !.prev_labels = IF differs THEN curr_labels
                                                ELSE st.prev_labels,
                                !.result[x] = label,
                                !.i = st.i + 1]

CombineCall(result, labels) ==
    [result0 |-> result, labels |-> labels, result |-> result,
     temp_perm |-> [x \in DOMAIN result |-> 0], i |-> 0, prev_labels |-> <<0, 0>>,
     curr_label |-> 0, count |-> 0, pc |-> "sort"]

InitCombine ==
    /\ \E n \in 0 .. MaxCombineLen : \E result \in Arrays(n) : \E labels \in Arrays(n) :
          comb = CombineCall(result, labels)
    /\ CodecIdle /\ InvertIdle /\ LLPIdle /\ ShuffleIdle /\ WordStreamIdle
    /\ UtilIdle

CombineRun ==
    /\ comb.pc \in {"sort", "first", "loop"}
    /\ comb' = CombineStep(comb)
    /\ UNCHANGED not_combine_vars

SpecCombine == InitCombine /\ [][CombineRun]_vars

\* C6: after the call, two nodes carry the same new label exactly if they had
\* the same pair (result, labels) before it, and the new labels are the values
\* 0 .. c-1 for the returned count c.
C6_CombineRefines ==
    comb.pc = "done" =>
        /\ \A x, y \in DOMAIN comb.result :
              (comb.result[x] = comb.result[y]) <=>
              (comb.result0[x] = comb.result0[y] /\ comb.labels[x] = comb.labels[y])
        /\ {comb.result[x] : x \in DOMAIN comb.result} = 0 .. (comb.count - 1)

\* C20: for every input of length N >= 1 the call returns, and the count it
\* returns is at least the number of distinct values of result before the call
\* and at least the number of distinct values of labels.
C20_CombineMonotone ==
    ArrayLen(comb.result0) >= 1 =>
        /\ comb.pc # "panic"
        /\ (comb.pc = "done" =>
              /\ comb.count >= Cardinality({comb.result0[x] : x \in DOMAIN comb.result0})
              /\ comb.count >= Cardinality({comb.labels[x] : x \in DOMAIN comb.labels}))

\* C20 witness: the call has returned 3 for three nodes with three different
\* pairs made of two values of result and two values of labels
C20_Witness ==
    /\ comb.pc = "done"
    /\ comb.result0 = (0 :> 0 @@ 1 :> 0 @@ 2 :> 1)
    /\ comb.labels = (0 :> 0 @@ 1 :> 1 @@ 2 :> 1)
    /\ comb.count = 3

(***************************************************************************)
(* layered_label_propagation, src/src/algo/llp/mod.rs:47-311.              *)
(*                                                                         *)
(* The closure handed to par_apply runs once per work range, the runs      *)
(* interleaving freely; every access to a shared atomic is a step of its   *)
(* own.  gamma is the fraction g / GammaScale and every score is kept      *)
(* multiplied by GammaScale.                                               *)
(***************************************************************************)
MaxLLPNodes == 2       \* num_nodes ranges over 1..MaxLLPNodes
MaxGammas == 1         \* gammas.len() ranges over 1..MaxGammas
GammaScale == 1        \* gammas are g / GammaScale, g in 0..GammaScale
MaxUpdate == 2         \* the update index is kept up to MaxUpdate
MaxObjFunc == 3        \* obj_func is kept up to MaxObjFunc (times GammaScale)

Min(a, b) == IF a < b THEN a ELSE b

\* the elements of a set of numbers in increasing order
RECURSIVE SortedSeq(_)
SortedSeq(S) ==
    IF S = {} THEN <<>>
    ELSE LET m == CHOOSE x \in S : \A y \in S : x <= y
         IN  <<m>> \o SortedSeq(S \ {m})

RECURSIVE SumOver(_, _)
SumOver(f, S) ==
    IF S = {} THEN 0
    ELSE LET x == CHOOSE y \in S : TRUE IN f[x] + SumOver(f, S \ {x})

num_nodes == ArrayLen(args.graph)
num_arcs == SumOver([v \in DOMAIN args.graph |-> Cardinality(args.graph[v])],
                    DOMAIN args.graph)

\* the work ranges of par_apply: 0 .. n cut into consecutive ranges
RangesOf(cuts, n) ==
    LET b == SortedSeq(cuts \cup {0, n})
    IN  [r \in 1 .. (Len(b) - 1) |-> [start |-> b[r], end |-> b[r + 1]]]

\* a shuffle that may leave any node id in any slot
ShufflesAnyArray(n, chunk_size) == Arrays(n)

\* every slot of update_perm holds node 0: the closures visit the same node
ShufflesOneNode(n, chunk_size) == {[x \in 0 .. (n - 1) |-> 0]}

\* lines 119-127: the identity shuffled inside each chunk of chunk_size slots
Shuffles(n, chunk_size) ==
    {p \in Arrays(n) : /\ IsPermutation(p)
                       /\ \A x \in DOMAIN p : p[x] \div chunk_size = x \div chunk_size}

\* LabelStore::new and LabelStore::init: label[v] = v, volume[l] = 1
LabelStoreInit(n) ==
    [labels |-> [v \in 0 .. (n - 1) |-> v], volumes |-> [l \in 0 .. (n - 1) |-> 1]]

\* a score that leaves the volume out
ScoreOfCount(g, count, volume) == (GammaScale + g) * count

\* line 176 times GammaScale: (1 + gamma) * count - gamma * (volume + 1)
Score(g, count, volume) == (GammaScale + g) * count - g * (volume + 1)

\* lines 133-136: the locals of the closure at its start
WorkerNew(range) ==
    [pc |-> "load", pos |-> range.start, end |-> range.end, node |-> 0,
     curr_label |-> 0, counts |-> <<>>, keys |-> {}, todo |-> <<>>,
     max |-> 0, old |-> 0, majorities |-> {}, next_label |-> 0,
     local_obj_func |-> 0, vals |-> <<>>]

\* the end of a turn of the for loop of line 137
Advance(w) ==
    [WorkerNew([start |-> w.pos + 1, end |-> w.end])
        EXCEPT !.pc = IF w.pos + 1 >= w.end THEN "done" ELSE "load",
               !.local_obj_func = w.local_obj_func]

\* the history of an iteration that is about to start: the nodes whose label has
\* been stored anew, the pairs <<s, w>> of a visit of s that loaded the label
\* of w before w's new label was stored, the number of labels stored, and the
\* evaluations of the stopping predicate
HistNew ==
    [changed |-> {}, stale |-> {}, changes |-> 0, evals |-> 0,
     pred_args |-> <<>>, pred_result |-> FALSE]

\* mutant of Breaks: the loop is left only if both conditions hold
BreaksOnBoth(pred_result, modified_read) == pred_result /\ modified_read = 0

\* lines 223-232: the loop is left
Breaks(pred_result, modified_read) == pred_result \/ modified_read = 0

\* ---- the closure of par_apply on range r, lines 133-206 ----
Gamma == args.gammas[driver.gamma_index + 1]
Running(r) == driver.pc = "workers" /\ r \in DOMAIN worker
WorkerOnly == UNCHANGED <<args, driver, update_perm, saved_labels, not_llp_vars>>

\* lines 137-141: the next node of the range; its can_change is loaded
W_Load(r) ==
    /\ Running(r) /\ worker[r].pc = "load"
    /\ LET w == worker[r]
           node == update_perm[w.pos]
       IN  worker' = [worker EXCEPT ![r] =
                         IF can_change[node]
                         THEN [w EXCEPT !.pc = "store_false", !.node = node]
                         ELSE Advance(w)]
    /\ UNCHANGED <<label_store, can_change, modified, hist>>
    /\ WorkerOnly

\* lines 143-155 and 158: can_change[node] is stored false; a node with
\* successors then reads its own label, which no other visit writes
W_StoreFalse(r) ==
    /\ Running(r) /\ worker[r].pc = "store_false"
    /\ LET w == worker[r] IN
       /\ can_change' = [can_change EXCEPT ![w.node] = FALSE]
       /\ worker' = [worker EXCEPT ![r] =
             IF args.graph[w.node] = {} THEN Advance(w)
             ELSE [w EXCEPT !.pc = "succ_label",
                            !.curr_label = label_store.labels[w.node],
                            !.counts = [l \in DOMAIN args.graph |-> 0],
                            !.todo = SortedSeq(args.graph[w.node])]]
    /\ UNCHANGED <<label_store, modified, hist>>
    /\ WorkerOnly

\* lines 159-165: the label of the next successor is loaded and counted
W_SuccLabel(r) ==
    /\ Running(r) /\ worker[r].pc = "succ_label"
    /\ LET w == worker[r]
           succ == Head(w.todo)
           l == label_store.labels[succ]
           last == Len(w.todo) = 1
       IN  /\ worker' = [worker EXCEPT ![r] =
                 [w EXCEPT !.counts[l] = @ + 1,
                           !.keys = IF last THEN w.keys \cup {l, w.curr_label}
                                    ELSE w.keys \cup {l},
                           !.todo = Tail(w.todo),
                           !.pc = IF last THEN "volume" ELSE "succ_label"]]
           /\ hist' = IF succ \in hist.changed THEN hist
                      ELSE [hist EXCEPT !.stale = @ \cup {<<w.node, succ>>}]
    /\ UNCHANGED <<label_store, can_change, modified>>
    /\ WorkerOnly

\* lines 171-191: one turn of the loop over the map, whose order is that of
\* the HashMap; the volume of the label is loaded.  vals keeps the val of
\* every turn, for the properties.
W_Volume(r) ==
    /\ Running(r) /\ worker[r].pc = "volume"
    /\ LET w == worker[r] IN
       \E l \in w.keys :
          LET val == Score(Gamma, w.counts[l], label_store.volumes[l])
              first == w.majorities = {}
              keys == w.keys \ {l}
          IN  worker' = [worker EXCEPT ![r] =
                 [w EXCEPT !.majorities = IF first \/ val > w.max THEN {l}
                                          ELSE IF val = w.max THEN @ \cup {l}
                                          ELSE @,
                           !.max = IF first \/ val > w.max THEN val ELSE @,
                           !.old = IF l = w.curr_label THEN val ELSE @,
                           !.vals = @ @@ (l :> val),
                           !.keys = keys,
                           !.pc = IF keys = {} THEN "choose" ELSE "volume"]]
    /\ UNCHANGED <<label_store, can_change, modified, hist>>
    /\ WorkerOnly

\* lines 193-197 and 203: the tie is broken; a change is counted in modified
W_Choose(r) ==
    /\ Running(r) /\ worker[r].pc = "choose"
    /\ LET w == worker[r] IN
       \E next_label \in w.majorities :
          IF next_label = w.curr_label
          THEN /\ worker' = [worker EXCEPT ![r] =
                     Advance([w EXCEPT !.local_obj_func = @ + (w.max - w.old)])]
               /\ modified' = modified
          ELSE /\ worker' = [worker EXCEPT ![r] =
                     [w EXCEPT !.next_label = next_label,
                               !.todo = SortedSeq(args.graph[w.node]),
                               !.pc = "mark"]]
               /\ modified' = modified + 1
    /\ UNCHANGED <<label_store, can_change, hist>>
    /\ WorkerOnly

\* lines 198-200: can_change of the next successor is stored true
W_Mark(r) ==
    /\ Running(r) /\ worker[r].pc = "mark"
    /\ LET w == worker[r] IN
       /\ can_change' = [can_change EXCEPT ![Head(w.todo)] = TRUE]
       /\ worker' = [worker EXCEPT ![r] =
             [w EXCEPT !.todo = Tail(w.todo),
                       !.pc = IF Len(w.todo) = 1 THEN "set_dec" ELSE "mark"]]
    /\ UNCHANGED <<label_store, modified, hist>>
    /\ WorkerOnly

\* mutant of VolumeDecremented: the volume of the old label is left as it is
VolumeKept(volumes, l) == volumes

\* LabelStore::set, first atomic operation: volume[old] decremented
VolumeDecremented(volumes, l) == [volumes EXCEPT ![l] = @ - 1]

\* line 201, LabelStore::set: the old label is loaded and its volume decremented
W_SetDec(r) ==
    /\ Running(r) /\ worker[r].pc = "set_dec"
    /\ LET w == worker[r]
           old == label_store.labels[w.node]
       IN  IF old = w.next_label
           THEN /\ worker' = [worker EXCEPT ![r] =
                      Advance([w EXCEPT !.local_obj_func = @ + (w.max - w.old)])]
                /\ label_store' = label_store
           ELSE /\ worker' = [worker EXCEPT ![r] = [w EXCEPT !.pc = "set_inc"]]
                /\ label_store' = [label_store EXCEPT
                                      !.volumes = VolumeDecremented(@, old)]
    /\ UNCHANGED <<can_change, modified, hist>>
    /\ WorkerOnly

\* LabelStore::set: the volume of the new label is incremented
W_SetInc(r) ==
    /\ Running(r) /\ worker[r].pc = "set_inc"
    /\ label_store' = [label_store EXCEPT !.volumes[worker[r].next_label] = @ + 1]
    /\ worker' = [worker EXCEPT ![r].pc = "set_store"]
    /\ UNCHANGED <<can_change, modified, hist>>
    /\ WorkerOnly

\* LabelStore::set: the new label is stored; line 203
W_SetStore(r) ==
    /\ Running(r) /\ worker[r].pc = "set_store"
    /\ LET w == worker[r] IN
       /\ label_store' = [label_store EXCEPT !.labels[w.node] = w.next_label]
       /\ worker' = [worker EXCEPT ![r] =
             Advance([w EXCEPT !.local_obj_func = @ + (w.max - w.old)])]
       /\ hist' = [hist EXCEPT !.changed = @ \cup {w.node}, !.changes = @ + 1]
    /\ UNCHANGED <<can_change, modified>>
    /\ WorkerOnly

WorkerStep(r) ==
    \/ W_Load(r) \/ W_StoreFalse(r) \/ W_SuccLabel(r) \/ W_Volume(r) \/ W_Choose(r)
    \/ W_Mark(r) \/ W_SetDec(r) \/ W_SetInc(r) \/ W_SetStore(r)

\* ---- the driver ----
\* a join that returns as soon as one closure has returned
AnyJoined == \E r \in DOMAIN worker : worker[r].pc = "done"

\* par_apply returns when every closure has returned
AllJoined == \A r \in DOMAIN worker : worker[r].pc = "done"

\* the results the stopping predicate may give
PredResults == IF args.predicate = "false" THEN {FALSE} ELSE BOOLEAN

\* lines 57-100: the arguments and the state built before the gamma loop
InitLLPWith(predicates, lens) ==
    /\ \E n \in 1 .. MaxLLPNodes :
       \E graph \in [0 .. (n - 1) -> SUBSET (0 .. (n - 1))] :
       \E k \in lens : \E gammas \in [1 .. k -> 0 .. GammaScale] :
       \E chunk_size \in 1 .. n : \E cuts \in SUBSET (1 .. (n - 1)) :
       \E predicate \in predicates :
          /\ args = [graph |-> graph, gammas |-> gammas, chunk_size |-> chunk_size,
                     ranges |-> RangesOf(cuts, n), predicate |-> predicate]
          /\ update_perm = [x \in 0 .. (n - 1) |-> x]
          /\ can_change = [x \in 0 .. (n - 1) |-> TRUE]
          /\ label_store = LabelStoreInit(n)
    /\ driver = [pc |-> "gamma_start", gamma_index |-> 0, update |-> 0,
                 obj_func |-> 0, delta_obj_func |-> 0]
    /\ modified = 0
    /\ worker = <<>>
    /\ saved_labels = <<>>
    /\ hist = HistNew
    /\ CodecIdle /\ InvertIdle /\ CombineIdle /\ ShuffleIdle /\ WordStreamIdle
    /\ UtilIdle

InitLLP == InitLLPWith({"false", "any"}, 1 .. MaxGammas)

\* a head of the gamma loop that sets up the label store and the flags for
\* the first gamma only
StartGammaFirstOnly ==
    /\ driver.pc = "gamma_start"
    /\ IF driver.gamma_index >= Len(args.gammas)
       THEN /\ driver' = [driver EXCEPT !.pc = "done"]
            /\ UNCHANGED <<label_store, can_change, hist>>
       ELSE /\ driver' = [driver EXCEPT !.pc = "iter_start", !.update = 0,
                                        !.obj_func = 0, !.delta_obj_func = 0]
            /\ label_store' = IF driver.gamma_index = 0 THEN LabelStoreInit(num_nodes)
                              ELSE label_store
            /\ can_change' = IF driver.gamma_index = 0
                             THEN [x \in DOMAIN can_change |-> TRUE] ELSE can_change
            /\ hist' = HistNew
    /\ UNCHANGED <<args, update_perm, modified, worker, saved_labels, not_llp_vars>>

\* lines 102-114: the head of the gamma loop
StartGamma ==
    /\ driver.pc = "gamma_start"
    /\ IF driver.gamma_index >= Len(args.gammas)
       THEN /\ driver' = [driver EXCEPT !.pc = "done"]
            /\ UNCHANGED <<label_store, can_change, hist>>
       ELSE /\ driver' = [driver EXCEPT !.pc = "iter_start", !.update = 0,
                                        !.obj_func = 0, !.delta_obj_func = 0]
            /\ label_store' = LabelStoreInit(num_nodes)
            /\ can_change' = [x \in DOMAIN can_change |-> TRUE]
            /\ hist' = HistNew
    /\ UNCHANGED <<args, update_perm, modified, worker, saved_labels, not_llp_vars>>

\* lines 116-133: the head of the update loop, up to the start of the closures
StartIteration ==
    /\ driver.pc = "iter_start"
    /\ update_perm' \in Shuffles(num_nodes, args.chunk_size)
    /\ modified' = 0
    /\ worker' = [r \in DOMAIN args.ranges |-> WorkerNew(args.ranges[r])]
    /\ hist' = HistNew
    /\ driver' = [driver EXCEPT !.pc = "workers"]
    /\ UNCHANGED <<args, label_store, can_change, saved_labels, not_llp_vars>>

\* lines 207-233: every closure has returned; the stopping predicate
EndIteration ==
    /\ driver.pc = "workers" /\ AllJoined
    /\ LET delta_obj_func ==
               SumOver([r \in DOMAIN worker |-> worker[r].local_obj_func], DOMAIN worker)
           obj_func == Min(driver.obj_func + delta_obj_func, MaxObjFunc)
       IN  \E pred_result \in PredResults :
              /\ hist' = [hist EXCEPT
                            !.evals = @ + 1,
                            !.pred_result = pred_result,
                            !.pred_args = <<num_nodes, num_arcs, delta_obj_func, obj_func,
                                            modified, driver.update>>]
              /\ driver' = [driver EXCEPT
                              !.obj_func = obj_func,
                              !.delta_obj_func = delta_obj_func,
                              !.update = IF Breaks(pred_result, modified) THEN @
                                         ELSE Min(@ + 1, MaxUpdate),
                              !.pc = IF Breaks(pred_result, modified) THEN "gamma_end"
                                     ELSE "iter_start"]
    /\ UNCHANGED <<args, update_perm, label_store, can_change, modified, worker,
                   saved_labels, not_llp_vars>>

\* invert_in_place run to its end
RECURSIVE InvertAll(_)
InvertAll(st) == IF st.pc \in {"outer", "inner"} THEN InvertAll(InvertStep(st)) ELSE st

\* x put after every element, whatever the labels
InsertLast(labels, s, x) == Append(s, x)

\* x put into the sorted sequence s after every element whose label is not
\* greater (line 239; par_sort_by is stable)
RECURSIVE InsertByLabel(_, _, _)
InsertByLabel(labels, s, x) ==
    IF s = <<>> THEN <<x>>
    ELSE IF labels[x] < labels[Head(s)] THEN <<x>> \o s
    ELSE <<Head(s)>> \o InsertByLabel(labels, Tail(s), x)

\* lines 237-239: the node ids sorted by label
RECURSIVE SortedByLabel(_, _)
SortedByLabel(labels, n) ==
    IF n = 0 THEN <<>>
    ELSE InsertByLabel(labels, SortedByLabel(labels, n - 1), n - 1)

\* lines 235-264: the permutation of this gamma and its label file
EndGamma ==
    /\ driver.pc = "gamma_end"
    /\ LET sorted == AsArray(SortedByLabel(label_store.labels, num_nodes))
           inverted == InvertAll([v |-> sorted, perm |-> sorted, n |-> 0, i |-> 0,
                                  k |-> 0, pc |-> "outer"])
       IN  update_perm' = inverted.perm
    /\ saved_labels' = Append(saved_labels, label_store.labels)
    /\ driver' = [driver EXCEPT !.gamma_index = @ + 1, !.pc = "gamma_start"]
    /\ UNCHANGED <<args, label_store, can_change, modified, worker, hist, not_llp_vars>>

DriverStep == StartGamma \/ StartIteration \/ EndIteration \/ EndGamma

NextLLP == DriverStep \/ \E r \in 1 .. MaxLLPNodes : WorkerStep(r)

SpecLLP == InitLLP /\ [][NextLLP]_vars

\* the runs with one gamma more than MaxGammas
SpecLLPGammas == InitLLPWith({"any"}, {MaxGammas + 1}) /\ [][NextLLP]_vars

\* the threads of the pool keep running: the coordinator and every closure
LLPFairness ==
    /\ WF_vars(DriverStep)
    /\ \A r \in 1 .. MaxLLPNodes : WF_vars(WorkerStep(r))

\* the run with the stopping predicate that always returns false
SpecLLPFair == InitLLPWith({"false"}, 1 .. MaxGammas) /\ [][NextLLP]_vars /\ LLPFairness

(***************************************************************************)
(* Properties of layered label propagation.                                *)
(***************************************************************************)
\* the iteration barrier: every closure of the iteration has returned
Barrier == driver.pc = "workers" /\ AllJoined

\* no closure is running: the barrier, or the driver code between iterations
NoWorkerRunning == driver.pc \in {"gamma_start", "iter_start", "gamma_end", "done"} \/ Barrier

NodesWithLabel(l) == {v \in DOMAIN label_store.labels : label_store.labels[v] = l}

\* C7: at every iteration barrier, volume[l] is the number of nodes with label l,
\* for every label l, and the volumes sum to N.
C7_VolumesMatch ==
    NoWorkerRunning =>
        /\ \A l \in DOMAIN label_store.volumes :
              label_store.volumes[l] = Cardinality(NodesWithLabel(l))
        /\ SumOver(label_store.volumes, DOMAIN label_store.volumes) = num_nodes

\* C7 witness: a barrier after two closures have each changed a label.
C7_Witness ==
    /\ Barrier
    /\ DOMAIN worker = {1, 2}
    /\ hist.changes = 2
    /\ label_store.labels = (0 :> 1 @@ 1 :> 0)

\* C33: in every interleaving of the set calls of the closures, each on the
\* nodes of its own range of update_perm, no volume is below zero in any
\* state, the states between the three operations of a set included, and
\* every decrement of a volume starts from a volume of at least one.
C33_NoVolumeUnderflow ==
    /\ [](\A l \in DOMAIN label_store.volumes : label_store.volumes[l] >= 0)
    /\ [][\A l \in DOMAIN label_store.volumes :
            label_store'.volumes[l] < label_store.volumes[l] =>
                /\ label_store.volumes[l] >= 1
                /\ label_store'.volumes[l] = label_store.volumes[l] - 1]_vars

\* C33 witness: two closures are inside set at once, both have decremented
\* the volume of the old label of their node and neither has incremented yet:
\* every volume is 0 while every node still carries a label.
C33_Witness ==
    /\ DOMAIN worker = {1, 2}
    /\ worker[1].pc = "set_inc" /\ worker[2].pc = "set_inc"
    /\ worker[1].node # worker[2].node
    /\ label_store.labels = (0 :> 0 @@ 1 :> 1)
    /\ label_store.volumes = (0 :> 0 @@ 1 :> 0)

\* C8: at the barrier, for every node w whose label changed in the iteration and
\* every successor s of w, can_change[s] is true unless the visit of s did not
\* use the old label of w: no mark is lost to the can_change = false store of a
\* visit that read the label of w before the new label was stored.
C8_MarkNotLost ==
    NoWorkerRunning =>
        \A w \in hist.changed : \A s \in args.graph[w] :
            can_change[s] \/ <<s, w>> \notin hist.stale

\* C9: with the stopping predicate that always returns false, every gamma loop
\* that starts an iteration eventually ends an iteration with modified = 0 and
\* is left.
C9_Terminates ==
    (driver.pc = "workers") ~> (driver.pc = "gamma_end" /\ modified = 0)

\* the step that evaluates the stopping predicate
Evaluates == hist'.evals = hist.evals + 1

\* C10: the stopping predicate is evaluated once per iteration, after every
\* closure has returned, with the values of that iteration; modified then equals
\* the number of label changes; and a further iteration follows exactly if the
\* predicate returned false and some label changed.
C10_PredicateAtBarrier ==
    /\ [](/\ hist.evals <= 1
          /\ (driver.pc = "workers" => hist.evals = 0)
          /\ (Barrier => modified = hist.changes)
          /\ (hist.evals = 1 =>
                /\ AllJoined
                /\ hist.pred_args[1] = num_nodes
                /\ hist.pred_args[2] = num_arcs
                /\ hist.pred_args[3] = driver.delta_obj_func
                /\ hist.pred_args[4] = driver.obj_func
                /\ hist.pred_args[5] = hist.changes
                /\ driver.update \in {hist.pred_args[6],
                                      Min(hist.pred_args[6] + 1, MaxUpdate)}))
    /\ [][Evaluates =>
            /\ Barrier
            /\ driver'.pc \in {"iter_start", "gamma_end"}
            /\ (driver'.pc = "iter_start") <=>
                   (~hist'.pred_result /\ hist.changes # 0)]_vars

\* C10 witness: the predicate has returned false after an iteration in which
\* two closures each changed a label, and a further iteration is about to start.
C10_Witness ==
    /\ driver.pc = "iter_start"
    /\ hist.evals = 1
    /\ ~hist.pred_result
    /\ hist.changes = 2
    /\ hist.pred_args[5] = 2


\* C11: within one gamma the iterations run in the order u = 0, 1, 2, ...: the
\* closures of an iteration are created, update_perm is shuffled and the
\* iteration counter moves only when no closure of the previous iteration is
\* still running, a closure takes a step only inside its own iteration, and
\* the sort and inversion of the gamma start only after the last join.
C11_IterationsInOrder ==
    [][LET joined == \A r \in DOMAIN worker : worker[r].pc = "done"
       IN  /\ (driver.pc # "workers" /\ driver'.pc = "workers") => joined
           /\ update_perm' # update_perm =>
                 /\ joined
                 /\ driver.pc \in {"iter_start", "gamma_end"}
           /\ worker' # worker =>
                 \/ driver.pc = "workers" /\ driver'.pc = "workers"
                 \/ driver.pc = "iter_start" /\ joined
           /\ driver'.update # driver.update =>
                 /\ joined
                 /\ driver'.update \in {0, driver.update + 1}
           /\ driver'.pc = "gamma_end" /\ driver.pc # "gamma_end" =>
                 driver.pc = "workers" /\ joined]_vars

\* the second iteration of a gamma is running on two ranges, after the first
\* one changed a label
C11_Witness ==
    /\ driver.pc = "workers" /\ driver.update = 1
    /\ DOMAIN worker = {1, 2}
    /\ worker[1].pc = "succ_label" /\ worker[2].pc = "done"
    /\ label_store.labels # [x \in 0 .. (num_nodes - 1) |-> x]

\* C28: while the closures of an iteration run, update_perm is a permutation of
\* 0..N-1 whose slot i holds a node of the chunk i \div chunk_size; every slot
\* lies in exactly one work range; a closure visits the node of a slot of its
\* own range, moves through the slots forward only and never comes back to a
\* slot, so a node is visited by one closure and once; and two closures are
\* never in LabelStore::set, or anywhere else in a visit, for the same node.
C28_ExclusiveVisits ==
    /\ [](driver.pc = "workers" =>
            LET visiting(r) == worker[r].pc \notin {"load", "done"} IN
            /\ IsPermutation(update_perm)
            /\ \A x \in DOMAIN update_perm :
                  update_perm[x] \div args.chunk_size = x \div args.chunk_size
            /\ \A x \in DOMAIN update_perm :
                  Cardinality({r \in DOMAIN args.ranges :
                                  args.ranges[r].start <= x /\ x < args.ranges[r].end}) = 1
            /\ \A r \in DOMAIN worker : visiting(r) =>
                  /\ args.ranges[r].start <= worker[r].pos
                  /\ worker[r].pos < args.ranges[r].end
                  /\ worker[r].node = update_perm[worker[r].pos]
            /\ \A r1, r2 \in DOMAIN worker :
                  r1 # r2 /\ visiting(r1) /\ visiting(r2) =>
                      worker[r1].node # worker[r2].node)
    /\ [][driver.pc = "workers" /\ driver'.pc = "workers" =>
             \A r \in DOMAIN worker :
                /\ worker'[r].pos >= worker[r].pos
                /\ worker[r].pc # "load" /\ worker'[r].pc = "load" =>
                      worker'[r].pos > worker[r].pos]_vars

\* C28 witness: on a shuffled update_perm two closures are inside
\* LabelStore::set at the same time, each for the node of its own slot
C28_Witness ==
    /\ driver.pc = "workers"
    /\ update_perm = (0 :> 1 @@ 1 :> 0)
    /\ DOMAIN worker = {1, 2}
    /\ worker[1].pc = "set_inc" /\ worker[1].node = 1
    /\ worker[2].pc = "set_dec" /\ worker[2].node = 0

\* C29: in a visit that has scored its labels, the labels scored are those of
\* the successors and the node's own current label, each with its count among
\* the successors (the counts add up to the outdegree) and a volume that is not
\* reduced for the node itself: the score is (1 + gamma) * count - gamma *
\* (volume + 1) for a volume of the label store, which is the present one when
\* the closure runs alone; max is the greatest score, the majority set holds
\* exactly the labels that attain it, old is the score of the current label,
\* and a label stored in place of the current one is in the majority set.  A
\* closure's objective value never goes down; it stays as it is when the
\* label is kept and grows by max - old when a visit ends.
C29_ChosenLabelMaximal ==
    /\ [](driver.pc = "workers" =>
            \A r \in DOMAIN worker :
               LET w == worker[r]
                   scored == {l \in DOMAIN w.counts : w.counts[l] > 0} \cup {w.curr_label}
                   val(l, volume) == (GammaScale + Gamma) * w.counts[l]
                                        - Gamma * (volume + 1)
               IN  w.pc \in {"choose", "mark", "set_dec", "set_inc", "set_store"} =>
                      /\ DOMAIN w.vals = scored
                      /\ SumOver(w.counts, DOMAIN w.counts)
                            = Cardinality(args.graph[w.node])
                      /\ \A l \in scored :
                            \E volume \in 0 .. num_nodes : w.vals[l] = val(l, volume)
                      /\ (DOMAIN worker = {r} /\ w.pc = "choose" =>
                            \A l \in scored :
                               /\ w.vals[l] = val(l, label_store.volumes[l])
                               /\ w.counts[l] =
                                     Cardinality({x \in args.graph[w.node] :
                                                     label_store.labels[x] = l}))
                      /\ \A l \in scored : w.vals[l] <= w.max
                      /\ w.majorities = {l \in scored : w.vals[l] = w.max}
                      /\ w.majorities # {}
                      /\ w.old = w.vals[w.curr_label]
                      /\ (w.pc # "choose" =>
                            /\ w.next_label \in w.majorities
                            /\ w.next_label # w.curr_label
                            /\ w.vals[w.next_label] >= w.vals[w.curr_label]))
    /\ [][driver.pc = "workers" /\ driver'.pc = "workers" =>
             \A r \in DOMAIN worker :
                LET w == worker[r]
                    added == worker'[r].local_obj_func - w.local_obj_func
                IN  /\ added >= 0
                    /\ added # 0 => w.pc \in {"set_dec", "set_store"} /\ added = w.max - w.old
                    /\ w.pc = "choose" /\ worker'[r].pc \in {"load", "done"} =>
                          added = 0 /\ label_store' = label_store]_vars

\* C29 witness: with gamma = 1 node 0 is about to take the label of its
\* successor, which scores 2 * 1 - (1 + 1) = 0, in place of its own, which
\* scores 2 * 0 - (1 + 1) = -2
C29_Witness ==
    /\ driver.pc = "workers" /\ Gamma = 1
    /\ 1 \in DOMAIN worker
    /\ worker[1].pc = "set_store" /\ worker[1].node = 0
    /\ worker[1].vals = (0 :> -2 @@ 1 :> 0)
    /\ worker[1].next_label = 1

\* C30: whenever the first iteration of a gamma is about to start, of the first
\* gamma or of a later one, label[v] = v for every node, volume[l] = 1 for
\* every label and can_change[v] is true for every node.
C30_GammaStartsFresh ==
    driver.pc = "iter_start" /\ driver.update = 0 =>
        /\ \A v \in DOMAIN label_store.labels : label_store.labels[v] = v
        /\ \A l \in DOMAIN label_store.volumes : label_store.volumes[l] = 1
        /\ \A v \in DOMAIN can_change : can_change[v]

\* C30 witness: the second gamma is about to start its first iteration after
\* the first gamma ended with both nodes under label 1
C30_Witness ==
    /\ driver.pc = "iter_start" /\ driver.update = 0
    /\ driver.gamma_index = 1
    /\ saved_labels = <<(0 :> 1 @@ 1 :> 1)>>

(***************************************************************************)
(* The parallel shuffle of update_perm, src/src/algo/llp/mod.rs:118-127,   *)
(* in two runs of the program on the same graph, seed, chunk_size and      *)
(* num_threads.  SmallRng is a deterministic generator: the order in which *)
(* chunk.shuffle leaves a chunk is a function of the seed and of the       *)
(* length of the chunk.  The function is revealed where a run first uses   *)
(* it and is the same for both runs.  A seed is a u64 kept as a signed     *)
(* number: -1 is 2^64 - 1 and fetch_add(1) takes it to 0.                  *)
(***************************************************************************)
MaxShuffleNodes == 3
MaxShuffleThreads == 1
MaxShuffleUpdates == 2

\* the orders chunk.shuffle may leave a chunk of length len in
ShuffleOrders(len) == {p \in Arrays(len) : IsPermutation(p)}

\* lines 47-98: the arguments (the seed is 2^64 - 1 or 0) and, for each of
\* the two runs, the seed counter and the state of its update loop
InitShuffle ==
    /\ \E n \in 1 .. MaxShuffleNodes : \E chunk_size \in 1 .. n :
       \E num_threads \in 0 .. MaxShuffleThreads : \E seed \in {0 - 1, 0} :
          shuf = [pc |-> "run", n |-> n, chunk_size |-> chunk_size,
                  num_threads |-> num_threads, seed |-> seed, rng |-> <<>>,
                  run |-> [r \in 1 .. 2 |->
                             [pc |-> "reset", seed |-> seed, todo |-> {},
                              update_perm |-> <<>>, update |-> 0, shuffled |-> <<>>]]]
    /\ CodecIdle /\ InvertIdle /\ CombineIdle /\ LLPIdle /\ WordStreamIdle
    /\ UtilIdle

\* line 118 and the start of thread_pool.install: update_perm is reset to the
\* identity and par_chunks_mut(chunk_size) makes one job per chunk
StartShuffle(r) ==
    /\ shuf.pc = "run" /\ shuf.run[r].pc = "reset"
    /\ shuf' = [shuf EXCEPT !.run[r] =
                   [@ EXCEPT !.pc = "shuffle",
                             !.todo = 0 .. (((shuf.n + shuf.chunk_size - 1)
                                                \div shuf.chunk_size) - 1),
                             !.update_perm = [x \in 0 .. (shuf.n - 1) |-> x]]]
    /\ UNCHANGED not_shuffle_vars

\* lines 121-125: the closure of one chunk.  The pool has num_threads + 1
\* threads (line 72): with one thread the jobs run in the order of the chunks,
\* with more any waiting chunk may be the next to reach its fetch_add.
ShuffleChunk(r, c) ==
    /\ shuf.pc = "run" /\ shuf.run[r].pc = "shuffle"
    /\ c \in shuf.run[r].todo
    /\ shuf.num_threads + 1 >= 2 \/ \A d \in shuf.run[r].todo : c <= d
    /\ LET run == shuf.run[r]
           seed == run.seed
           first == c * shuf.chunk_size
           len == Min(shuf.chunk_size, shuf.n - first)
           key == <<seed, len>>
       IN  \E order \in (IF key \in DOMAIN shuf.rng THEN {shuf.rng[key]}
                          ELSE ShuffleOrders(len)) :
              shuf' = [shuf EXCEPT
                         !.rng = (key :> order) @@ @,
                         !.run[r] =
                            [run EXCEPT
                               !.seed = seed + 1,
                               !.todo = @ \ {c},
                               !.update_perm =
                                  [x \in DOMAIN run.update_perm |->
                                     IF x \div shuf.chunk_size = c
                                     THEN run.update_perm[first + order[x - first]]
                                     ELSE run.update_perm[x]]]]
    /\ UNCHANGED not_shuffle_vars

\* thread_pool.install returns: every chunk has been shuffled
EndShuffle(r) ==
    /\ shuf.pc = "run" /\ shuf.run[r].pc = "shuffle" /\ shuf.run[r].todo = {}
    /\ shuf' = [shuf EXCEPT !.run[r] =
                   [@ EXCEPT !.pc = IF shuf.run[r].update + 1 >= MaxShuffleUpdates
                                    THEN "done" ELSE "reset",
                             !.update = @ + 1,
                             !.shuffled = Append(@, shuf.run[r].update_perm)]]
    /\ UNCHANGED not_shuffle_vars

NextShuffle ==
    \E r \in 1 .. 2 :
        \/ StartShuffle(r)
        \/ \E c \in 0 .. (MaxShuffleNodes - 1) : ShuffleChunk(r, c)
        \/ EndShuffle(r)

SpecShuffle == InitShuffle /\ [][NextShuffle]_vars

\* C12: with the same graph, seed, chunk_size and thread count, update_perm after
\* the shuffle of iteration u is the same in both runs, for every u, whatever
\* the order in which the chunks reached the fetch_add on the seed.
C12_ShuffleDeterministic ==
    shuf.pc = "run" =>
        \A u \in 1 .. Min(Len(shuf.run[1].shuffled), Len(shuf.run[2].shuffled)) :
            shuf.run[1].shuffled[u] = shuf.run[2].shuffled[u]

(***************************************************************************)
(* The word stream and its fuzz target,                                    *)
(* src/fuzz/fuzz_targets/mem_word_write.rs.  The target keeps a reference  *)
(* (buffer, idx) of its own and compares the stream with it after every    *)
(* command.  MemWordWrite itself (src/src/backends/word_stream.rs) is not  *)
(* part of the sources at hand: its operations are as section 4.A of the   *)
(* specification describes them, on [data, word_index].  A buffer is a     *)
(* sequence: slot i is element i + 1.                                      *)
(***************************************************************************)
MaxBufferLen == 2
MaxWord == 1

\* each operation gives the stream after it, whether it succeeded, and the word
set_position(w, word_index) ==
    IF word_index >= Len(w.data) THEN [w |-> w, ok |-> FALSE, word |-> 0]
    ELSE [w |-> [w EXCEPT !.word_index = word_index], ok |-> TRUE, word |-> 0]

read_next_word(w) ==
    IF w.word_index >= Len(w.data) THEN [w |-> w, ok |-> FALSE, word |-> 0]
    ELSE [w |-> [w EXCEPT !.word_index = @ + 1], ok |-> TRUE,
          word |-> w.data[w.word_index + 1]]

write_word(w, word) ==
    IF w.word_index >= Len(w.data) THEN [w |-> w, ok |-> FALSE, word |-> 0]
    ELSE [w |-> [w EXCEPT !.data[w.word_index + 1] = word, !.word_index = @ + 1],
          ok |-> TRUE, word |-> 0]

\* lines 22-27.  written and reads are history: the word last written to each
\* slot, and the words read one after the other since the position was 0
InitWordStream ==
    /\ \E n \in 0 .. MaxBufferLen : \E init \in [1 .. n -> 0 .. MaxWord] :
          ws = [pc |-> "run", init |-> init, buffer |-> init, idx |-> 0,
                writer |-> [data |-> init, word_index |-> 0],
                last |-> [cmd |-> "new", arg |-> 0, ok |-> TRUE, word |-> 0, at |-> 0],
                written |-> <<>>, reads |-> <<>>, from0 |-> TRUE]
    /\ CodecIdle /\ InvertIdle /\ CombineIdle /\ LLPIdle /\ ShuffleIdle
    /\ UtilIdle

\* the outcome of an assert_eq
Asserted(equal) == IF equal THEN "run" ELSE "assert_failed"

\* lines 30-32
LenCommand ==
    /\ ws.pc = "run"
    /\ ws' = [ws EXCEPT
                 !.pc = Asserted(Len(ws.writer.data) = Len(ws.buffer)),
                 !.last = [cmd |-> "Len", arg |-> 0, ok |-> TRUE,
                           word |-> Len(ws.writer.data), at |-> ws.writer.word_index]]
    /\ UNCHANGED not_word_stream_vars

\* lines 33-35
GetPosition ==
    /\ ws.pc = "run"
    /\ ws' = [ws EXCEPT
                 !.pc = Asserted(ws.writer.word_index = ws.idx),
                 !.last = [cmd |-> "GetPosition", arg |-> 0, ok |-> TRUE,
                           word |-> ws.writer.word_index, at |-> ws.writer.word_index]]
    /\ UNCHANGED not_word_stream_vars

\* the reference accepts the position len as well
SetPositionUpToLen(word_index) ==
    /\ ws.pc = "run"
    /\ LET r == set_position(ws.writer, word_index)
       IN  ws' = [ws EXCEPT
                    !.writer = r.w,
                    !.idx = IF word_index <= Len(ws.buffer) THEN word_index ELSE @,
                    !.last = [cmd |-> "SetPosition", arg |-> word_index, ok |-> r.ok,
                              word |-> 0, at |-> ws.writer.word_index],
                    !.reads = IF r.ok THEN <<>> ELSE @,
                    !.from0 = IF r.ok THEN word_index = 0 ELSE @]
    /\ UNCHANGED not_word_stream_vars

\* lines 36-41
SetPosition(word_index) ==
    /\ ws.pc = "run"
    /\ LET r == set_position(ws.writer, word_index)
       IN  ws' = [ws EXCEPT
                    !.writer = r.w,
                    !.idx = IF word_index < Len(ws.buffer) THEN word_index ELSE @,
                    !.last = [cmd |-> "SetPosition", arg |-> word_index, ok |-> r.ok,
                              word |-> 0, at |-> ws.writer.word_index],
                    !.reads = IF r.ok THEN <<>> ELSE @,
                    !.from0 = IF r.ok THEN word_index = 0 ELSE @]
    /\ UNCHANGED not_word_stream_vars

\* the reference compares with the word after the one at idx
ReadNextWordOffByOne ==
    /\ ws.pc = "run"
    /\ LET r == read_next_word(ws.writer)
           expected == IF ws.idx + 1 < Len(ws.buffer)
                       THEN <<TRUE, ws.buffer[ws.idx + 2]>> ELSE <<FALSE, 0>>
       IN  ws' = [ws EXCEPT
                    !.pc = Asserted(<<r.ok, r.word>> = expected),
                    !.writer = r.w,
                    !.idx = IF ws.idx < Len(ws.buffer) THEN @ + 1 ELSE @,
                    !.last = [cmd |-> "ReadNextWord", arg |-> 0, ok |-> r.ok,
                              word |-> r.word, at |-> ws.writer.word_index],
                    !.reads = IF r.ok THEN Append(@, r.word) ELSE @]
    /\ UNCHANGED not_word_stream_vars

\* lines 42-47
ReadNextWord ==
    /\ ws.pc = "run"
    /\ LET r == read_next_word(ws.writer)
           expected == IF ws.idx < Len(ws.buffer)
                       THEN <<TRUE, ws.buffer[ws.idx + 1]>> ELSE <<FALSE, 0>>
       IN  ws' = [ws EXCEPT
                    !.pc = Asserted(<<r.ok, r.word>> = expected),
                    !.writer = r.w,
                    !.idx = IF ws.idx < Len(ws.buffer) THEN @ + 1 ELSE @,
                    !.last = [cmd |-> "ReadNextWord", arg |-> 0, ok |-> r.ok,
                              word |-> r.word, at |-> ws.writer.word_index],
                    !.reads = IF r.ok THEN Append(@, r.word) ELSE @]
    /\ UNCHANGED not_word_stream_vars

\* the reference does not advance after a write
WriteWordNoAdvance(word) ==
    /\ ws.pc = "run"
    /\ LET can_write == ws.idx < Len(ws.buffer)
           r == write_word(ws.writer, word)
       IN  ws' = [ws EXCEPT
                    !.pc = Asserted(r.ok = can_write),
                    !.buffer = IF can_write THEN [@ EXCEPT ![ws.idx + 1] = word] ELSE @,
                    !.writer = r.w,
                    !.last = [cmd |-> "WriteWord", arg |-> word, ok |-> r.ok,
                              word |-> 0, at |-> ws.writer.word_index],
                    !.written = IF r.ok THEN (ws.writer.word_index :> word) @@ @ ELSE @,
                    !.from0 = IF r.ok THEN FALSE ELSE @]
    /\ UNCHANGED not_word_stream_vars

\* lines 48-59
WriteWord(word) ==
    /\ ws.pc = "run"
    /\ LET can_write == ws.idx < Len(ws.buffer)
           r == write_word(ws.writer, word)
       IN  ws' = [ws EXCEPT
                    !.pc = Asserted(r.ok = can_write),
                    !.buffer = IF can_write THEN [@ EXCEPT ![ws.idx + 1] = word] ELSE @,
                    !.idx = IF can_write THEN @ + 1 ELSE @,
                    !.writer = r.w,
                    !.last = [cmd |-> "WriteWord", arg |-> word, ok |-> r.ok,
                              word |-> 0, at |-> ws.writer.word_index],
                    !.written = IF r.ok THEN (ws.writer.word_index :> word) @@ @ ELSE @,
                    !.from0 = IF r.ok THEN FALSE ELSE @]
    /\ UNCHANGED not_word_stream_vars

\* lines 28-60: the loop over the commands of the fuzz case
NextWordStream ==
    \/ LenCommand
    \/ GetPosition
    \/ \E word_index \in 0 .. (MaxBufferLen + 1) : SetPosition(word_index)
    \/ ReadNextWord
    \/ \E word \in 0 .. MaxWord : WriteWord(word)

SpecWordStream == InitWordStream /\ [][NextWordStream]_vars

(***************************************************************************)
(* Properties of the word stream.                                          *)
(***************************************************************************)
\* C13: set_position(i) sets the position to i when i < len and leaves it
\* unchanged when i >= len, i = len included; the buffer is never changed by
\* it; and the fuzz target, whose reference does the same, never fails.
C13_SetPositionSilent ==
    /\ [](ws.pc # "assert_failed" /\ ws.writer.word_index = ws.idx)
    /\ [][ws'.last.cmd = "SetPosition" =>
             /\ ws'.writer.data = ws.writer.data
             /\ ws'.writer.word_index =
                   IF ws'.last.arg < Len(ws.writer.data) THEN ws'.last.arg
                   ELSE ws.writer.word_index
             /\ ws'.last.ok = (ws'.last.arg < Len(ws.writer.data))]_vars

\* C13 witness: after a write, at position 1 of a stream of 2 words,
\* set_position(2) has failed and the position is still 1
C13_Witness ==
    /\ ws.pc = "run"
    /\ ws.last.cmd = "SetPosition" /\ ws.last.arg = 2 /\ ~ws.last.ok
    /\ Len(ws.writer.data) = 2 /\ ws.writer.word_index = 1
    /\ ws.written # <<>>

\* C14: read_next_word at position p < len returns the word in slot p and moves
\* to p + 1; at p = len it fails and changes nothing.  The reads from position
\* 0 of a stream nothing was written to return the initial buffer in order and
\* then fail, and len() is the length of the initial buffer.
C14_ReadsInOrder ==
    /\ [](/\ ws.pc # "assert_failed"
          /\ Len(ws.writer.data) = Len(ws.init)
          /\ (ws.last.cmd = "Len" => ws.last.word = Len(ws.init))
          /\ (ws.last.cmd = "ReadNextWord" =>
                IF ws.last.at < Len(ws.writer.data)
                THEN /\ ws.last.ok
                     /\ ws.last.word = ws.writer.data[ws.last.at + 1]
                     /\ ws.writer.word_index = ws.last.at + 1
                ELSE ~ws.last.ok /\ ws.writer.word_index = ws.last.at)
          /\ (ws.written = <<>> /\ ws.from0 =>
                /\ Len(ws.reads) = ws.writer.word_index
                /\ ws.reads = SubSeq(ws.init, 1, Len(ws.reads))
                /\ (ws.last.cmd = "ReadNextWord" /\ ~ws.last.ok => ws.reads = ws.init)))
    /\ [][ws'.last.cmd = "ReadNextWord" => ws'.writer.data = ws.writer.data]_vars

\* C14 witness: the two words of the initial buffer have been read in order
\* and the third read has failed
C14_Witness ==
    /\ ws.pc = "run"
    /\ ws.init = <<1, 0>> /\ ws.written = <<>> /\ ws.from0
    /\ ws.reads = <<1, 0>>
    /\ ws.last.cmd = "ReadNextWord" /\ ~ws.last.ok

\* C15: write_word(w) at position i < len overwrites slot i only and moves to
\* i + 1, and every later read of slot i returns the word last written to it;
\* at position len it fails and changes neither the buffer nor the position.
C15_WriteThenRead ==
    /\ [](/\ ws.pc # "assert_failed"
          /\ ws.writer.word_index = ws.idx
          /\ \A i \in DOMAIN ws.written : ws.writer.data[i + 1] = ws.written[i]
          /\ (ws.last.cmd = "ReadNextWord" /\ ws.last.at \in DOMAIN ws.written =>
                ws.last.ok /\ ws.last.word = ws.written[ws.last.at]))
    /\ [][ws'.last.cmd = "WriteWord" =>
             IF ws.writer.word_index < Len(ws.writer.data)
             THEN /\ ws'.last.ok
                  /\ ws'.writer.data =
                        [ws.writer.data EXCEPT ![ws.writer.word_index + 1] = ws'.last.arg]
                  /\ ws'.writer.word_index = ws.writer.word_index + 1
             ELSE ~ws'.last.ok /\ ws'.writer = ws.writer]_vars

\* C15 witness: both slots of a stream of 2 words were written, then
\* set_position(0), and the read of slot 0 has returned the written word,
\* which is not the initial one
C15_Witness ==
    /\ ws.pc = "run"
    /\ DOMAIN ws.written = {0, 1}
    /\ ws.last.cmd = "ReadNextWord" /\ ws.last.ok /\ ws.last.at = 0
    /\ ws.last.word = ws.written[0] /\ ws.last.word # ws.init[1]

\* C24: on a well-formed stream and for every window size, 0 included, every
\* call of the degree iterator on a record returns, node_id is then the number
\* of records decoded, and for every offset r the next record may use,
\* 1 <= r <= min(W, node_id), the slot read for r holds the outdegree of node
\* node_id - r.
C24_DegreeWindow ==
    wellformed =>
        /\ deg.status # "panic"
        /\ deg.node_id = Len(deg_items)
        /\ \A r \in 1 .. compression_window : r <= deg.node_id =>
              deg.backrefs[(deg.node_id - r) % compression_window]
                  = deg_items[deg.node_id - r + 1][3]

MaxPermuteNodes == 3
MaxSuccessors == 2
MaxArcs == 3

\* a view that renumbers the node and leaves the successors as they are
PermutedPairsSourceOnly(graph, perm, x) ==
    [i \in 1 .. Len(graph[x]) |-> <<perm[x], graph[x][i]>>]

\* the item PermutedGraph { graph, perm }.iter() yields for node x, as pairs
PermutedPairs(graph, perm, x) ==
    [i \in 1 .. Len(graph[x]) |-> <<perm[x], perm[graph[x][i]]>>]

\* sort_pairs.iter(): the pairs in the order of (src, dst), which is the order
\* of src * num_nodes + dst
SortPairs(pairs, n) ==
    LET keys == Sort([i \in 1 .. Len(pairs) |-> pairs[i][1] * n + pairs[i][2]])
    IN  [i \in 1 .. Len(keys) |-> <<keys[i] \div n, keys[i] % n>>]

\* main, lines 79-118: the graph and the permutation read
InitPermute ==
    /\ \E n \in 0 .. MaxPermuteNodes :
       \E graph \in {g \in [0 .. (n - 1) ->
                       {l \in UNION {[1 .. k -> 0 .. (n - 1)] : k \in 0 .. MaxSuccessors} :
                           \A i \in 1 .. (Len(l) - 1) : l[i] <= l[i + 1]}] :
                          SumLen([x \in 1 .. n |-> g[x - 1]]) <= MaxArcs} :
       \E perm \in {p \in Arrays(n) : IsPermutation(p)} :
          util = [pc |-> "dump", num_nodes |-> n, graph |-> graph, perm |-> perm,
                  x |-> 0, pairs |-> <<>>, arcs |-> <<>>]
    /\ CodecIdle /\ InvertIdle /\ CombineIdle /\ LLPIdle /\ ShuffleIdle
    /\ WordStreamIdle

\* lines 55-59: one item of the iteration, every successor pushed
PermuteDump ==
    /\ util.pc = "dump" /\ util.x < util.num_nodes
    /\ util' = [util EXCEPT !.pairs = @ \o PermutedPairs(util.graph, util.perm, util.x),
                            !.x = @ + 1]
    /\ UNCHANGED not_util_vars

\* lines 60-76: the sorted pairs become the arc list handed to the compressor
PermuteSort ==
    /\ util.pc = "dump" /\ util.x >= util.num_nodes
    /\ util' = [util EXCEPT !.arcs = SortPairs(util.pairs, util.num_nodes),
                            !.pc = "compressed"]
    /\ UNCHANGED not_util_vars

SpecPermute == InitPermute /\ [][PermuteDump \/ PermuteSort]_vars

MaxBfsNodes == 3

\* test_start and test_start_orphan: the graph built and the order asserted
BfsTests ==
    { [graph |-> (0 :> <<2, 3>> @@ 1 :> <<5>> @@ 2 :> <<>> @@ 3 :> <<>> @@ 4 :> <<0>>
                  @@ 5 :> <<>>),
       order |-> <<0, 2, 3, 1, 5, 4>>],
      [graph |-> (0 :> <<4>> @@ 1 :> <<5>> @@ 2 :> <<>> @@ 3 :> <<>> @@ 4 :> <<2, 3>>
                  @@ 5 :> <<>>),
       order |-> <<0, 4, 2, 3, 1, 5>>] }

\* BfsOrder::new(&graph)
InitBfs ==
    /\ \E graph \in {t.graph : t \in BfsTests} \cup
                     UNION {[0 .. (n - 1) ->
                             {l \in UNION {[1 .. k -> 0 .. (n - 1)] : k \in 0 .. n} :
                                 \A i \in 1 .. (Len(l) - 1) : l[i] < l[i + 1]}] :
                            n \in 0 .. MaxBfsNodes} :
          util = [pc |-> "bfs", graph |-> graph, visited |-> {}, queue |-> <<>>,
                  start |-> 0, order |-> <<>>]
    /\ CodecIdle /\ InvertIdle /\ CombineIdle /\ LLPIdle /\ ShuffleIdle
    /\ WordStreamIdle

\* a visit that takes the node enqueued last
BfsNextLifo ==
    /\ util.pc = "bfs"
    /\ IF Len(util.order) = ArrayLen(util.graph) THEN util' = [util EXCEPT !.pc = "end"]
       ELSE LET root == CHOOSE r \in DOMAIN util.graph \ util.visited :
                           \A o \in DOMAIN util.graph \ util.visited : r <= o
                current_node == IF util.queue = <<>> THEN root
                                ELSE util.queue[Len(util.queue)]
                rest == IF util.queue = <<>> THEN <<>>
                        ELSE SubSeq(util.queue, 1, Len(util.queue) - 1)
                visited == util.visited \cup {current_node}
                found == SelectSeq(util.graph[current_node], LAMBDA s : s \notin visited)
            IN  util' = [util EXCEPT !.queue = rest \o found,
                                    !.visited = visited \cup {found[i] : i \in 1 .. Len(found)},
                                    !.start = IF util.queue = <<>> THEN root ELSE @,
                                    !.order = Append(@, current_node)]
    /\ UNCHANGED not_util_vars

\* Iterator::next: the head of the queue, or with an empty queue the lowest
\* node not visited yet; its successors not visited yet are marked and
\* enqueued in the order of the list.  None when every node has been given.
BfsNext ==
    /\ util.pc = "bfs"
    /\ IF Len(util.order) = ArrayLen(util.graph) THEN util' = [util EXCEPT !.pc = "end"]
       ELSE LET root == CHOOSE r \in DOMAIN util.graph \ util.visited :
                           \A o \in DOMAIN util.graph \ util.visited : r <= o
                current_node == IF util.queue = <<>> THEN root ELSE Head(util.queue)
                rest == IF util.queue = <<>> THEN <<>> ELSE Tail(util.queue)
                visited == util.visited \cup {current_node}
                found == SelectSeq(util.graph[current_node], LAMBDA s : s \notin visited)
            IN  util' = [util EXCEPT !.queue = rest \o found,
                                    !.visited = visited \cup {found[i] : i \in 1 .. Len(found)},
                                    !.start = IF util.queue = <<>> THEN root ELSE @,
                                    !.order = Append(@, current_node)]
    /\ UNCHANGED not_util_vars

SpecBfs == InitBfs /\ [][BfsNext]_vars

\* C23: when the iterator has ended, the order holds every node exactly once;
\* a node that no earlier node of the order points to is a root, it is lower
\* than every node after it and no node before it points to a node after it;
\* every other node comes in the order of its discoverer (the first node of
\* the order that points to it), and nodes of one discoverer in ascending id.
\* The two graphs of the tests give the orders the tests assert.
C23_BfsOrder ==
    util.pc = "end" =>
        LET nodes == DOMAIN util.graph
            order == util.order
            pos(v) == CHOOSE p \in 1 .. Len(order) : order[p] = v
            arc(u, v) == \E i \in 1 .. Len(util.graph[u]) : util.graph[u][i] = v
            IsRoot(v) == \A u \in nodes : arc(u, v) => pos(u) >= pos(v)
            disc(v) == CHOOSE u \in nodes :
                          /\ arc(u, v)
                          /\ \A w \in nodes : arc(w, v) => pos(u) <= pos(w)
        IN  /\ Len(order) = Cardinality(nodes)
            /\ \A v \in nodes : \E p \in 1 .. Len(order) : order[p] = v
            /\ \A r \in nodes : IsRoot(r) =>
                  /\ \A v \in nodes : pos(v) > pos(r) => r < v
                  /\ \A u, v \in nodes : pos(u) < pos(r) /\ arc(u, v) => pos(v) < pos(r)
            /\ \A v, w \in nodes : ~IsRoot(v) /\ ~IsRoot(w) /\ v # w =>
                  /\ pos(disc(v)) < pos(disc(w)) => pos(v) < pos(w)
                  /\ disc(v) = disc(w) /\ v < w => pos(v) < pos(w)
            /\ \A t \in BfsTests : util.graph = t.graph => order = t.order

\* C23 witness: the iterator has ended on the graph of test_start, where node
\* 4, the only node that points to 0, comes last
C23_Witness ==
    /\ util.pc = "end"
    /\ util.order = <<0, 2, 3, 1, 5, 4>>
    /\ \E t \in BfsTests : util.graph = t.graph

(***************************************************************************)
(* The candidate permutation of a gamma, mod.rs:237-240, on any array of   *)
(* labels: the node ids sorted by label, then invert_in_place step by      *)
(* step.  The labels are kept next to the state of the inversion.          *)
(***************************************************************************)
\* lines 237-239, and the call of line 240 about to run
InitCandidate ==
    /\ \E n \in 0 .. MaxPermLen : \E labels \in Arrays(n) :
          LET sorted == AsArray(SortedByLabel(labels, n))
          IN  inv = [v |-> sorted, perm |-> sorted, n |-> 0, i |-> 0, k |-> 0,
                     pc |-> "outer", labels |-> labels]
    /\ CodecIdle /\ CombineIdle /\ LLPIdle /\ ShuffleIdle /\ WordStreamIdle
    /\ UtilIdle

SpecCandidate == InitCandidate /\ [][InvertRun]_vars

\* C31: the call of invert_in_place on the node ids sorted by label never
\* panics, and when it has returned the array is a bijection node -> rank on
\* 0..N-1 in which a node of a lower label has a lower rank, so that the nodes
\* of one label have the ranks of one block without a gap and the blocks
\* follow each other by increasing label.
C31_CandidateBlocks ==
    /\ inv.pc # "panic"
    /\ inv.pc = "done" =>
          LET nodes == DOMAIN inv.labels
              rank == inv.perm
              block(l) == {rank[v] : v \in {u \in nodes : inv.labels[u] = l}}
          IN  /\ DOMAIN rank = nodes
              /\ IsPermutation(rank)
              /\ \A u, v \in nodes : inv.labels[u] < inv.labels[v] => rank[u] < rank[v]
              /\ \A l \in nodes : \A a, b \in block(l) : \A c \in nodes :
                    a < c /\ c < b => c \in block(l)

\* C31 witness: four nodes with the labels 2, 0, 2, 0: the nodes 1 and 3 get
\* the ranks 0 and 1, the nodes 0 and 2 the ranks 2 and 3
C31_Witness ==
    /\ inv.pc = "done"
    /\ inv.labels = (0 :> 2 @@ 1 :> 0 @@ 2 :> 2 @@ 3 :> 0)
    /\ inv.perm = (0 :> 2 @@ 1 :> 0 @@ 2 :> 3 @@ 3 :> 1)

(***************************************************************************)
(* The end of layered_label_propagation, mod.rs:269-311: the gammas are    *)
(* ordered by cost and their label files combined.  The costs are those    *)
(* compute_log_gap_cost has returned, any numbers; labels[g + 1] is the    *)
(* content of the label file of gamma g.  calls is the history of the      *)
(* calls of combine: the gamma whose labels were passed and result_labels  *)
(* after the call.                                                         *)
(***************************************************************************)
MaxFinalNodes == 2     \* num_nodes ranges over 1..MaxFinalNodes
MaxFinalGammas == 3    \* gammas.len() ranges over 1..MaxFinalGammas
MaxCost == 2           \* a cost ranges over 0..MaxCost

\* combine run to its end
RECURSIVE CombineAll(_)
CombineAll(st) ==
    IF st.pc \in {"sort", "first", "loop"} THEN CombineAll(CombineStep(st)) ELSE st

\* lines 266-267: every gamma has its cost and its label file
InitFinal ==
    /\ \E n \in 1 .. MaxFinalNodes : \E k \in 1 .. MaxFinalGammas :
       \E costs \in [1 .. k -> 0 .. MaxCost] : \E labels \in [1 .. k -> Arrays(n)] :
          comb = [pc |-> "sort_gammas", costs |-> costs, labels |-> labels,
                  gamma_indices |-> <<>>, best_gamma_index |-> 0, i |-> 0,
                  result_labels |-> <<>>, calls |-> <<>>]
    /\ CodecIdle /\ InvertIdle /\ LLPIdle /\ ShuffleIdle /\ WordStreamIdle
    /\ UtilIdle

\* lines 270-291: the stable sort of the indices by descending cost, the best
\* gamma, and its labels loaded into result_labels
FinalSort ==
    /\ comb.pc = "sort_gammas"
    /\ LET k == Len(comb.costs)
           gamma_indices ==
               CHOOSE p \in [1 .. k -> 0 .. (k - 1)] :
                  /\ \A a, b \in 1 .. k : a # b => p[a] # p[b]
                  /\ \A a, b \in 1 .. k : a < b =>
                        \/ comb.costs[p[a] + 1] > comb.costs[p[b] + 1]
                        \/ comb.costs[p[a] + 1] = comb.costs[p[b] + 1] /\ p[a] < p[b]
           best_gamma_index == gamma_indices[k]
       IN  comb' = [comb EXCEPT !.gamma_indices = gamma_indices,
                                !.best_gamma_index = best_gamma_index,
                                !.result_labels = comb.labels[best_gamma_index + 1],
                                !.pc = "combine"]
    /\ UNCHANGED not_combine_vars

\* lines 293-297: the labels of the next gamma of the order are combined
FinalCombine ==
    /\ comb.pc = "combine" /\ comb.i < Len(comb.gamma_indices)
    /\ LET gamma_index == comb.gamma_indices[comb.i + 1]
           call == CombineAll(CombineCall(comb.result_labels, comb.labels[gamma_index + 1]))
       IN  comb' = [comb EXCEPT !.result_labels = call.result,
                                !.calls = Append(@, [gamma_index |-> gamma_index,
                                                     result |-> call.result]),
                                !.pc = "recombine"]
    /\ UNCHANGED not_combine_vars

\* the step ends with no second call of combine
FinalRecombineSkipped ==
    /\ comb.pc = "recombine"
    /\ comb' = [comb EXCEPT !.i = @ + 1, !.pc = "combine"]
    /\ UNCHANGED not_combine_vars

\* lines 302-307: the labels of the best gamma are combined once more
FinalRecombine ==
    /\ comb.pc = "recombine"
    /\ LET call == CombineAll(CombineCall(comb.result_labels,
                                          comb.labels[comb.best_gamma_index + 1]))
       IN  comb' = [comb EXCEPT !.result_labels = call.result,
                                !.calls = Append(@, [gamma_index |-> comb.best_gamma_index,
                                                     result |-> call.result]),
                                !.i = @ + 1,
                                !.pc = "combine"]
    /\ UNCHANGED not_combine_vars

\* line 310: the loop is over, result_labels is returned
FinalReturn ==
    /\ comb.pc = "combine" /\ comb.i >= Len(comb.gamma_indices)
    /\ comb' = [comb EXCEPT !.pc = "returned"]
    /\ UNCHANGED not_combine_vars

SpecFinal == InitFinal /\ [][FinalSort \/ FinalCombine \/ FinalRecombine \/ FinalReturn]_vars

\* C32 as stated: when the value is returned, the calls of combine are, for
\* the gammas other than the best one in the order of decreasing cost, one
\* call with the labels of that gamma and then one with the labels of the
\* best gamma, and no other call.
C32_OtherGammasOnly ==
    comb.pc = "returned" =>
        LET others == SelectSeq(comb.gamma_indices, LAMBDA g : g # comb.best_gamma_index)
        IN  /\ Len(comb.calls) = 2 * Len(others)
            /\ \A j \in 1 .. Len(others) :
                  /\ comb.calls[2 * j - 1].gamma_index = others[j]
                  /\ comb.calls[2 * j].gamma_index = comb.best_gamma_index

\* C32: once the gammas are ordered, the best gamma has the least cost and
\* result_labels starts as its labels; the steps take every gamma, the best
\* one included, by cost from the greatest down (the best one last); a step is
\* one call of combine with the labels of its gamma and then one with the
\* labels of the best gamma, and a step begins only after the one before it
\* has made both calls; the value returned is result_labels after the last
\* call, which is a call with the labels of the best gamma.
C32_EveryGammaCombined ==
    comb.pc \in {"combine", "recombine", "returned"} =>
        LET k == Len(comb.costs)
            order == comb.gamma_indices
            best == comb.best_gamma_index
            calls == comb.calls
        IN  /\ Len(order) = k
            /\ {order[a] : a \in 1 .. k} = 0 .. (k - 1)
            /\ \A a \in 1 .. (k - 1) : comb.costs[order[a] + 1] >= comb.costs[order[a + 1] + 1]
            /\ best = order[k]
            /\ \A g \in 1 .. k : comb.costs[best + 1] <= comb.costs[g]
            /\ (calls = <<>> => comb.result_labels = comb.labels[best + 1])
            /\ (calls # <<>> => comb.result_labels = calls[Len(calls)].result)
            /\ Len(calls) = 2 * comb.i + (IF comb.pc = "recombine" THEN 1 ELSE 0)
            /\ \A j \in 1 .. Len(calls) :
                  calls[j].gamma_index = IF j % 2 = 1 THEN order[(j + 1) \div 2] ELSE best
            /\ (comb.pc = "returned" => Len(calls) = 2 * k)

\* C32 witness: three gammas with the costs 1, 0, 2 are taken in the order 2,
\* 0, 1, each followed by the best one, 1, which is also the last step
C32_Witness ==
    /\ comb.pc = "returned"
    /\ comb.costs = <<1, 0, 2>>
    /\ comb.gamma_indices = <<2, 0, 1>>
    /\ [j \in 1 .. Len(comb.calls) |-> comb.calls[j].gamma_index] = <<2, 1, 0, 1, 1, 1>>
====
